--------------------------- MODULE MachineHistory ---------------------------
(***************************************************************************)
(* The emulator with the memory that BusHistory has of a program's         *)
(* accesses.  The accesses are those of the processor's instructions: what *)
(* a handler asks of the bus and gets into a register.  The history only   *)
(* looks on; a step that ends the process it does not see.                 *)
(***************************************************************************)
EXTENDS Machine, BusHistory

machine_history_vars == << machine_vars, access, stored, written, done >>

Unnoticed == UNCHANGED << access, stored, written, done >>

(* The instruction's access, in the bus's terms.                           *)
Noticed ==
  LET addr == bus'.addr  n == bus'.size IN
  \/ (~running' \/ bus'.op = "idle") /\ Unnoticed
  \/ /\ running' /\ bus'.op = "read"
     /\ \E w \in Outcomes(addr, n) \ {Fault} : bus'.val = Number[w] /\ Sensed(addr, n, w)
  \/ running' /\ bus'.op = "write" /\ Driven(addr, n, Bits(bus'.val))

MachineHistoryInit ==
  /\ MachineInit
  /\ access = Nothing /\ done = {}
  /\ stored = Forgotten /\ written = [a \in Programmable |-> Unknown]

MachineHistoryNext ==
  \/ Booting /\ Unnoticed
  \/ cycle /\ Noticed
  \/ Transfers /\ Carried
  \/ Stopped /\ Unnoticed

MachineHistorySpec ==
  MachineHistoryInit /\ [][MachineHistoryNext]_machine_history_vars /\ MachineFairness
=============================================================================
