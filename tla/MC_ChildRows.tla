----------------------------- MODULE MC_ChildRows -----------------------------
EXTENDS ChildRows

CONSTANTS k1, k2, a, b

\* A list that is replaced by one sharing a key, by one sharing none and by
\* the empty one; with the parent's columns, without, and columns alone.
SomeSaves ==
    {[text |-> a, list |-> {<<k1, a>>}], [text |-> b, list |-> {<<k1, b>>, <<k2, b>>}],
     [text |-> Unsent, list |-> {<<k2, a>>}], [text |-> Unsent, list |-> {}],
     [text |-> b, list |-> Unsent]}
=============================================================================
