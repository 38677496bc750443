---------------------------- MODULE MCBufferPool ----------------------------
(***************************************************************************)
(* Buffer pools in which the code does not do what it says.                *)
(***************************************************************************)
EXTENDS BufferPool

Each == [p \in Page |-> p]

\* Three pages, and a bucket holds one.  A thread takes out page 1, clean, and is slow to say that
\* it is gone; another brings it back and updates it; a third takes it out, dirty.
ThreeHash == << <<1, 2, 3>>, <<2, 3, 1>> >>
Slow == {[hot |-> <<NoOne, 3>>, free |-> {1}, todo |-> <<2, 2, 1>>,
          may |-> << {<<1, "SH">>, <<2, "SH">>}, {<<1, "EX">>}, {<<2, "SH">>} >>]}

\* Four pages, and a bucket holds one.
FourHash == << <<1, 1, 2, 1>>, <<3, 2, 2, 4>> >>
TransitBucket == [p \in Page |-> p % 3]

\* Two frames and three pages: a frame has another page by the time it is pinned.
Busy == {[hot |-> <<1, 3, NoOne>>, free |-> {}, todo |-> <<2, 1>>,
          may |-> <<(1..3) \X {"SH", "EX"}, (1..3) \X {"SH", "EX"}>>]}

\* Page 2 is to be inserted where 1 and 3 are; 4 comes in the place of 1.
Crowded == {[hot |-> <<1, 3, NoOne>>, free |-> {3}, todo |-> <<1, 1>>,
             may |-> << {<<2, "SH">>}, {<<4, "SH">>} >>]}
=============================================================================
