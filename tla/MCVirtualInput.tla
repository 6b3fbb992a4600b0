------------------------------ MODULE MCVirtualInput ------------------------------
EXTENDS VirtualInput

\* Key 30 is "a", and "A" shifted.
MCKeymap == [l \in 0..1 |-> [k \in Enabled |-> IF l = 0 THEN {"a"} ELSE {"A"}]]

Entry(s, i, x) == [slot |-> s, id |-> i, x |-> x, y |-> x]

\* Up to two entries on two slots: contacts begin at 0, move to 1 and end, also
\* twice on one slot and after an entry for the other; an id that needs more than
\* 8 bits, one that becomes -1 on the way, and a slot that the device does not
\* have.
Begin(s) == Entry(s, 200, 0)
Move(s) == Entry(s, 0, 1)
Finish(s) == Entry(s, -1, 0)
MCReports == {<<>>} \cup UNION {{<<Begin(s)>>, <<Move(s)>>, <<Finish(s)>>} : s \in Slots}
               \cup {<<Begin(0), Begin(1)>>, <<Move(1), Move(0)>>,
                     <<Finish(0), Move(0)>>, <<Begin(1), Finish(1)>>}
               \cup {<<Entry(9, 200, 0)>>, <<Entry(1, 65535, 1)>>}

\* Raw events to several devices: a press, an autorepeat, a press by another
\* value, a release with a code of 17 bits, and an event to an index that is no
\* device.
Raw(d, c, v) == [dev |-> d, code |-> c, val |-> v]
MCRawEvents == {Raw(1, Key(272), 1), Raw(1, Key(272), 2),
                Raw(2, Key(30), 3), Raw(2, Key(30), 2), Raw(2, Key(65566), 0),
                Raw(4, MtSlot, 1), Raw(5, Touch, 1)}
===================================================================================
