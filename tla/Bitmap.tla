------------------------------- MODULE Bitmap -------------------------------
(***************************************************************************)
(* The port allocator of one node, pkg/libs/bitmap/bitmap.go.              *)
(*                                                                         *)
(* A Bitmap is the set of positions whose bit is 1 and the position at     *)
(* which the next search starts (round robin).  The packing of the bits    *)
(* into 64-bit words is left out: Set and Clear touch one bit, and no      *)
(* caller sees a word.                                                     *)
(***************************************************************************)
EXTENDS Integers

CONSTANT Size            \* number of ports of a node (PortRange)

ASSUME SizeAssumption == Size \in Nat \ {0}

VARIABLES
    bits,                \* positions that are set
    position             \* where FindFirstUnset starts to look

bitmapVars == <<bits, position>>

Positions == 0 .. Size - 1

NewBitmap == bits = {} /\ position = 0

BitmapTypeOK == bits \subseteq Positions /\ position \in Positions

\* How many positions FindFirstUnset looks at before it reaches pos.
Distance(pos) == IF pos >= position THEN pos - position
                                    ELSE pos - position + Size

Full == Positions \ bits = {}

\* A mutated FindFirstUnset: the next search starts past the last position.
FindFirstUnsetNoWrap(pos) ==
    /\ pos \in Positions \ bits
    /\ \A other \in Positions \ bits : Distance(pos) <= Distance(other)
    /\ position' = pos + 1

\* The loop of FindFirstUnset stops at pos: the unset position it meets first.
FindFirstUnset(pos) ==
    /\ pos \in Positions \ bits
    /\ \A other \in Positions \ bits : Distance(pos) <= Distance(other)
    /\ position' = (pos + 1) % Size

FindFirstUnsetAndSet(pos) ==
    /\ FindFirstUnset(pos)
    /\ bits' = bits \cup {pos}

\* Clear leaves the search position alone.  At most one position is cleared at a time.
Clear(freed) ==
    /\ bits' = bits \ freed
    /\ UNCHANGED position
=============================================================================
