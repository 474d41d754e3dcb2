---------------------------- MODULE MCConfigPersist ----------------------------
\* Vectors shorter than a list, of the first list's length, and of the last list's,
\* which runs over the first.
EXTENDS ConfigPersist

MCVector == {<<1>>, <<0, 1>>, <<1, 1>>, <<0, 1, 0>>, <<1, 1, 0, 1>>}
MCBoot == {[rows |-> <<0, 1, 0, 0, 1>>, member |-> [m \in Member |-> 0]]}
================================================================================
