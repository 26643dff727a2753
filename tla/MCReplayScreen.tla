---------------------------- MODULE MCReplayScreen ----------------------------
EXTENDS ReplayScreen
CONSTANTS px, purchase
MCTypesOf == [p \in {px, None} |-> IF p = px THEN {purchase} \cap Types ELSE {}]
===============================================================================
