---------------------------- MODULE MCLoaderTree ----------------------------
(* LoaderTree for TLC: entries that collide, nest, insert and switch.      *)
EXTENDS LoaderTree

CONSTANTS x, y, g, k, plugin, unknown, svc

E(id, sets, plugins, insert) ==
    [id |-> id, sets |-> sets, plugins |-> plugins, insert |-> insert]
Named(n) == [name |-> n]

Table ==
    [leafX   |-> E(x, Named(plugin), <<>>, <<>>),
     leafY   |-> E(y, Named(plugin) @@ [inject |-> {svc}], <<>>, <<>>),
     bare    |-> E(NoId, Named(unknown), <<>>, <<>>),
     nobody  |-> E(NoId, <<>>, <<>>, <<>>),
     group   |-> E(g, [group |-> TRUE, inject |-> {svc}], <<"leafX">>, <<>>),
     ungroup |-> E(g, [group |-> FALSE], <<>>, <<>>),
     off     |-> E(x, [disabled |-> TRUE], <<>>, <<>>),
     inner   |-> E(k, [group |-> TRUE], <<"leafY">>, <<>>),
     more    |-> E(NoId, <<>>, <<>>, <<"inner", "leafX">>),
     into    |-> E(g, <<>>, <<"more", "off">>, <<>>),
     mixed   |-> E(x, <<>>, <<>>, <<"leafY">>)]
MCEntries == DOMAIN Table
=============================================================================
