---------------------------- MODULE MCExceptions ----------------------------
(***************************************************************************)
(* User code at the reset address that raises every exception, in and out  *)
(* of delay slots, and the usual handler at the vector: fetch EPC, jump to *)
(* it, rfe in the delay slot.  SR starts with any mode, isolated or not,   *)
(* bootstrap vectors or not, and an empty previous/old stack, or one that  *)
(* an exception does not get back.                                         *)
(***************************************************************************)
EXTENDS ExceptionHistory, R3000Alu, Assembler

UserFetch(a) ==
  CASE a = 128 -> { Syscall, Break, Cop1, Add(3, 1, 1), Addi(3, 1, 7), Lw(1, 0, 0),
                    Lbu(2, 0, 0), Mtc0(2, 12), Beq(0, 0, 1) }
    [] a = 132 -> { Nop, Syscall, Sw(1, 1, 0) }
    [] a = 136 -> { J(0) }
    [] a = 140 -> { Nop, Break }
    [] a = 60  -> { Nop }
    [] a = 64  -> { Mfc0(26, 14) }
    [] a = 68  -> { Nop }
    [] a = 72  -> { Jr(26) }
    [] a = 76  -> { Rfe }
    [] OTHER   -> {}

UserData    == {66}
Status      == {0, 3, 4, 64 + 3, 128 + 1}
StatusBoot  == { [r \in Reg |-> IF r = SR THEN s ELSE 0] : s \in Status }
Stale       == {128}

UserCode == {128, 132, 136, 140}

ASSUME TheHandlerIsUsual == UsualHandler

(* An exception in user code does return to the interrupted instruction:   *)
(* main() keeps calling cycle() and the handler has no loop.               *)
HandlerReturns ==
  \A a \in UserCode :
    (running /\ pc = RamVector /\ interrupted.at = a /\ ~interrupted.slot)
      ~> (~running \/ pc = a)

-----------------------------------------------------------------------------
(* What the manual says of exceptions and the code does not do.            *)

(* "When the virtual address of the instruction resides in a branch delay  *)
(* slot, the EPC contains the virtual address of the instruction           *)
(* immediately preceding": trigger_exception never looks at delay_slot.    *)
EpcNamesBranch ==
  [][\A ex \in ExceptionType : Trap(ex) /\ is_branch => cop'[EPC] = ToWord(pc - 4)]_exception_vars

(* "Any exception puts the system in Kernel mode": KUc, bit 1 of SR, is 0  *)
(* in the handler.                                                         *)
EntersKernelMode ==
  [][\A ex \in ExceptionType : Trap(ex) => Bit(cop'[SR], 2) = 0]_exception_vars

(* "If BEV = 1, then the exception vectors reside in the BIOS ROM": the    *)
(* vector is chosen from a status that has just lost its BEV bit.          *)
BootstrapVector ==
  [][\A ex \in ExceptionType :
       Trap(ex) /\ Bit(cop[SR], BEVBit) = 1 => pc' = RomVector]_exception_vars
=============================================================================
