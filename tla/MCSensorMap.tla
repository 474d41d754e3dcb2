------------------------------- MODULE MCSensorMap -------------------------------
EXTENDS SensorMap

\* Six numbers, and up to six sensors that get one; the last has the filtered
\* service only.  Declared: two that are alike, one of LUN 3, one of LUN 2, one
\* reserved, one beyond LUN 3.
MCSensor == 1..7
MCDeclared == <<0, 0, 10, 6, 5, 12, 1>>
MCBoot == {1..5}
================================================================================
