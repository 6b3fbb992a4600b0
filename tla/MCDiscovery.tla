------------------------------ MODULE MCDiscovery ------------------------------
EXTENDS DeviceDiscovery, TLC

CONSTANTS r1, r2

MCSymmetry == Permutations(Recorders)

\* A mouse; a multi-touch panel whose range does not begin at 0; a panel of the
\* older protocol, without ABS_X and ABS_Y; a keyboard with a volume knob, which is
\* an absolute axis of another kind; and a lid switch, which has no events of a
\* kind that is recorded.
MCEvBits == ("mouse" :> {"SYN", "KEY", "REL"}) @@ ("multi" :> {"SYN", "KEY", "ABS"})
              @@ ("panel" :> {"SYN", "KEY", "ABS"}) @@ ("keyboard" :> {"SYN", "KEY", "ABS"})
              @@ ("lid" :> {"SYN"})
MCAbsBits == [n \in Nodes |->
    IF n = "multi" THEN Axes
    ELSE IF n = "panel" THEN {"MT_POSITION_X", "MT_POSITION_Y"} ELSE {}]
MCAxisRange == [n \in Nodes |-> [a \in Axes |->
    IF a \notin AbsBits[n] \cap UNION {TransformedAxes[c] : c \in 1..2} THEN NoRange
    ELSE IF a \in TransformedAxes[1] THEN <<3, 7>> ELSE <<-2, 1>>]]
================================================================================
