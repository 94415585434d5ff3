-------------------------- MODULE ExceptionHistory --------------------------
(***************************************************************************)
(* The processor with a memory of the last exception, the handler that the *)
(* documents of the console give for it, and what that handler is for.     *)
(***************************************************************************)
EXTENDS R3000A

VARIABLE interrupted  \* what the last exception interrupted, and how far its
                      \* handler has got, 0 if it is done

exception_vars == << vars, interrupted >>

(* This step enters an exception.                                          *)
Enters == running /\ \E ex \in ExceptionType : Trap(ex)

Track ==
  interrupted' =
    IF Enters THEN [at |-> pc, status |-> cop[SR], slot |-> is_branch, step |-> 1]
    ELSE [interrupted EXCEPT !.step = IF @ \in 1 .. 3 THEN @ + 1 ELSE 0]

ExceptionInit == Init /\ interrupted = [at |-> 0, status |-> 0, slot |-> FALSE, step |-> 0]
ExceptionNext == Next /\ Track
ExceptionCycle == cycle /\ ExceptionNext

ExceptionSpec ==
  /\ ExceptionInit /\ [][ExceptionNext]_exception_vars
  /\ WF_exception_vars(ExceptionCycle)

-----------------------------------------------------------------------------
(* The usual handler: fetch EPC into a register, jump to it, and rfe in    *)
(* the delay slot.  The second instruction is for the load delay of mfc0.  *)
Slot(k)      == ToWord(RamVector + 4 * (k - 1))
HandlerAt(k) == Fetch(Slot(k))

ReturnsBy(r) ==
  /\ \A i \in HandlerAt(1) : Cop0Op(i) /\ i.rs = 0 /\ i.rt = r /\ i.rd = EPC
  /\ \A i \in HandlerAt(2) : Handler(i) = "op_sll" /\ i.rd = 0
  /\ \A i \in HandlerAt(3) : Handler(i) = "op_jr" /\ i.rs = r
  /\ \A i \in HandlerAt(4) : Cop0Op(i) /\ IsRfe(i)

UsualHandler == \E r \in 1 .. 31 : ReturnsBy(r)

(* The current pair of the mode stack, and whether it can be had back: an  *)
(* exception ors the stack with its shifted self, so that a bit that is    *)
(* set in the previous pair and not in the current one comes back set.     *)
Mode(s)        == s % 4
Recoverable(s) == /\ Bit(s, 4) = 1 => Bit(s, 1) = 1
                  /\ Bit(s, 8) = 1 => Bit(s, 2) = 1

(* The rfe that ends the handler resumes the interrupted instruction, not  *)
(* the one after it, in the mode it ran in, provided it was not in a delay *)
(* slot and its mode can be had back: EPC, the load delay of mfc0, the     *)
(* delay slot of jr and the mode stack all have to agree.                  *)
ResumesInterrupted ==
  [][running /\ running' /\ interrupted.step = 4 /\ ~interrupted.slot
       => /\ pc' = interrupted.at
          /\ Recoverable(interrupted.status)
               => Mode(cop'[SR]) = Mode(interrupted.status)]_exception_vars
=============================================================================
