----------------------------- MODULE ExportNames -----------------------------
\* What the exported files call the layers of a configuration, and which of its
\* keys are knobs and sliders.
EXTENDS KeyNames

\* The last of two layers with one name is the one that counts.
NamedLayer(c, name) == {i \in DOMAIN c.layers : c.layers[i].name = name}
IsLayer(c, name) == NamedLayer(c, name) # {}
LastNamed(c, name) ==
    CHOOSE i \in NamedLayer(c, name) : \A j \in NamedLayer(c, name) : j <= i
LayerNumber(c, name) == IF IsLayer(c, name) THEN LastNamed(c, name) - 1 ELSE 0

\* The numbers of a set, the smallest first.
InOrder(S) ==
    <<>> \o [n \in 1..Cardinality(S) |-> CHOOSE k \in S : Cardinality({j \in S : j < k}) = n - 1]

\* The keys that are an element, counted from 0.
KeysThatAre(c, element) ==
    InOrder({i - 1 : i \in {j \in DOMAIN c.geometry : Opt(c.geometry[j], "element", "key") = element}})
=============================================================================
