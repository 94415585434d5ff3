---------------------------- MODULE MipsPipeline ----------------------------
(***************************************************************************)
(* What the processor promises a program, one instruction at a time, with  *)
(* none of the devices of R3000A: one register file, at most one load on   *)
(* its way to it, the address of the instruction to execute, and at most   *)
(* one jump that waits for its delay slot.                                 *)
(*                                                                         *)
(*   - An instruction reads registers as they were before the load of the  *)
(*     instruction before it arrives, and its own result beats that load.  *)
(*   - lwl and lwr alone see the arriving value.                           *)
(*   - Exactly one instruction executes between a jump and its target.     *)
(*   - Register 0 is zero.                                                 *)
(*   - An exception starts at the vector, with nothing in flight, and EPC  *)
(*     names the instruction that raised it, unless that was a delay slot: *)
(*     there the code gets EPC wrong and no promise is made.               *)
(*   - A program may be cut short.                                         *)
(***************************************************************************)
EXTENDS Cop0

CONSTANTS ResetPC, HiReset, LoReset, Fetch(_), MemData

VARIABLES
  regs,     \* the register file
  hi, lo,
  load,     \* the load on its way: a register number and a value
  at,       \* the address of the instruction to execute
  jump,     \* where to go after it, NoJump for the next address
  bus, running

vars == << regs, hi, lo, load, at, jump, cop, bus, running >>

NoJump == -1
NoLoad == [reg |-> 0, val |-> 0]
Idle   == [op |-> "idle", size |-> 0, addr |-> 0, val |-> 0]

Init ==
  /\ regs = [r \in Reg |-> 0] /\ hi = HiReset /\ lo = LoReset
  /\ load = NoLoad /\ at = ResetPC /\ jump = NoJump
  /\ Cop0Init /\ bus = Idle /\ running = TRUE

Put(f, r, v) == IF r = 0 THEN f ELSE [f EXCEPT ![r] = v]
Operand(r)   == regs[r]
Arrived      == Put(regs, load.reg, load.val)
Following    == IF jump = NoJump THEN ToWord(at + 4) ELSE jump
Link         == ToWord(Following + 4)

(* What one instruction does to each part of the state.                    *)
Nothing      == regs' = Arrived
Result(r, v) == regs' = Put(Arrived, r, v)
Load(r, v)   == load' = IF r = 0 THEN NoLoad ELSE [reg |-> r, val |-> v]
Unloading    == load' = NoLoad
Go(t)        == at' = Following /\ jump' = t
Proceed      == Go(NoJump)
Silent       == bus' = Idle
Transfer(o, n, a, v) == bus' = [op |-> o, size |-> n, addr |-> Physical(a), val |-> v]

-----------------------------------------------------------------------------
Overflows(a, b) == overflow(a, b, ToWord(a + b))
Sum(r, a, b)    == ~Overflows(a, b) /\ Result(r, ToWord(a + b))

Compute(i) ==
  LET h == Handler(i)  a == Operand(i.rs)  b == Operand(i.rt) IN
  /\ \/ h \in AluRegister  /\ Result(i.rd, Alu(h, a, b))
     \/ h \in AluShift     /\ Result(i.rd, Alu(h, b, i.shamt))
     \/ h \in AluImmediate /\ Result(i.rt, Alu(h, a, i.imm))
     \/ h = "op_mfhi"      /\ Result(i.rd, hi)
     \/ h = "op_mflo"      /\ Result(i.rd, lo)
     \/ h = "op_add"       /\ Sum(i.rd, a, b)
     \/ h = "op_addi"      /\ Sum(i.rt, a, ToWord(SignedHalf(i.imm)))
  /\ Unloading /\ Proceed /\ Silent /\ UNCHANGED << hi, lo, cop, running >>

SetHiLo(i) ==
  LET h == Handler(i)  a == Operand(i.rs)  b == Operand(i.rt) IN
  /\ \/ h \in MultiplyDivide /\ hi' = MulDiv(h, a, b)[1] /\ lo' = MulDiv(h, a, b)[2]
     \/ h = "op_mthi" /\ hi' = a /\ lo' = lo
     \/ h = "op_mtlo" /\ lo' = a /\ hi' = hi
  /\ Nothing /\ Unloading /\ Proceed /\ Silent /\ UNCHANGED << cop, running >>

-----------------------------------------------------------------------------
Jump(i) ==
  LET h == Handler(i) IN
  /\ \/ /\ h \in Branches
        /\ IF Taken(i, Operand(i.rs), Operand(i.rt))
           THEN Go(BranchTarget(Following, i.imm)) ELSE Proceed
     \/ h \in {"op_j", "op_jal"}   /\ Go(JumpTarget(Following, i.target))
     \/ h \in {"op_jr", "op_jalr"} /\ Go(Operand(i.rs))
  /\ IF Links(i) \/ h \in {"op_jal", "op_jalr"} THEN Result(31, Link) ELSE Nothing
  /\ Unloading /\ Silent /\ UNCHANGED << hi, lo, cop, running >>

-----------------------------------------------------------------------------
Address(i) == VAddr(Operand(i.rs), i.imm)

(* A word is read from the memory cell the access falls in.                *)
Cell(i) == Address(i) - (Address(i) % 4)

Read(i) ==
  LET h == Handler(i) IN
  \E v \in MemData :
    \/ /\ h \in DelayedLoads /\ ~Isolated
       /\ Transfer("read", Size(h), Address(i), v)
       /\ Nothing /\ Load(i.rt, Extend(h, v))
    \/ /\ h = "op_lbu" /\ ~Isolated
       /\ Transfer("read", 1, Address(i), v)
       /\ Result(i.rt, Extend(h, v)) /\ Unloading
    \/ /\ h \in MergeLoads /\ ~Isolated
       /\ Transfer("read", 4, Cell(i), v)
       /\ Result(i.rt, Merge(h, Arrived[i.rt], v, Address(i) % 4)) /\ Unloading
    \/ /\ h \in MergeStores
       /\ Transfer("read", 4, Cell(i), v)
       /\ Nothing /\ Unloading

Write(i) ==
  /\ Handler(i) \in Stores /\ ~Isolated
  /\ Transfer("write", Size(Handler(i)), Address(i), Truncate(Handler(i), Operand(i.rt)))
  /\ Nothing /\ Unloading

(* An isolated cache hides memory from every access but swl and swr.       *)
Ignore(i) ==
  /\ Handler(i) \in MemoryOps \ MergeStores /\ Isolated
  /\ Silent /\ Nothing /\ Unloading

Access(i) ==
  /\ Read(i) \/ Write(i) \/ Ignore(i)
  /\ Proceed /\ UNCHANGED << hi, lo, cop, running >>

-----------------------------------------------------------------------------
Raises(i) ==
  \/ Handler(i) \in Unusable \cup {"op_syscall", "op_break"}
  \/ Handler(i) = "op_add" /\ Overflows(Operand(i.rs), Operand(i.rt))

Except(i) ==
  /\ Raises(i)
  /\ cop' \in [Reg -> Word]
  /\ \A r \in Reg \ {SR, CAUSE, EPC} : cop'[r] = cop[r]
  /\ jump = NoJump => cop'[EPC] = at
  /\ at' = RamVector /\ jump' = NoJump
  /\ Nothing /\ Unloading /\ Silent /\ UNCHANGED << hi, lo, running >>

Control(i) ==
  /\ Handler(i) = "op_cop0"
  /\ \/ i.rs = 0 /\ Load(i.rt, cop[i.rd]) /\ cop' = cop
     \/ i.rs = 4 /\ write_gpr(i.rd, Operand(i.rt)) /\ Unloading
     \/ i.rs = 16 /\ rfe /\ Unloading
     \/ i.rs \notin {0, 4} /\ cop' = cop /\ Unloading
  /\ Nothing /\ Proceed /\ Silent /\ UNCHANGED << hi, lo, running >>

Execute(i) == Compute(i) \/ SetHiLo(i) \/ Jump(i) \/ Access(i) \/ Except(i) \/ Control(i)

Halt == running' = FALSE /\ UNCHANGED << regs, hi, lo, load, at, jump, cop, bus >>

Step == running /\ (Halt \/ \E i \in Fetch(at) : Execute(i))

Safety == Init /\ [][Step]_vars
Spec   == Safety /\ WF_vars(Step)
=============================================================================
