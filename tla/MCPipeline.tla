----------------------------- MODULE MCPipeline -----------------------------
(***************************************************************************)
(* A four-instruction loop at the reset address whose first two words may  *)
(* be any load, use or jump, so that every pair of them meets in the load  *)
(* and branch delay slots, across the loop's edge too.  The machine has    *)
(* 8-bit words made of 2-bit bytes; every other proportion is the real     *)
(* one.                                                                    *)
(***************************************************************************)
EXTENDS R3000A, R3000Alu, Assembler

Loads == { Lw(1, 0, 0), Lb(1, 1, 1), Lwl(1, 1, 0), Lbu(2, 0, 1) }
Uses  == { Or(1, 2, 1), Or(2, 1, 0) }
Jumps == { Beq(1, 2, 2), Bgezal(1, 1), Jal(2), Jr(31) }

LoopFetch(a) ==
  CASE a \in {128, 132} -> Loads \cup Uses \cup Jumps
    [] a = 136          -> { J(0) }
    [] a = 140          -> { Nop, Lw(2, 0, 0) }
    [] OTHER            -> {}

LoopData  == {0, 129}
ZeroBoot  == { [r \in Reg |-> 0] }
ZeroStale == {0}
=============================================================================
