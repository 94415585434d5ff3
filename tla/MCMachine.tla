----------------------------- MODULE MCMachine ------------------------------
(***************************************************************************)
(* The whole emulator on a machine of 4-bit bytes, with 64 bytes of RAM    *)
(* and a BIOS that does what the console's does on its way up: it takes    *)
(* the cache out of isolation, copies the exception handler to its vector, *)
(* puts a byte into it, reads it back and puts the word back, enables the  *)
(* DMA channels, lets the OTC channel build a table, waits for the         *)
(* channel's busy bit to clear, sends the table as a list to the GPU,      *)
(* waits again, raises an exception and then idles.                        *)
(*                                                                         *)
(* There is a BIOS for each of three tables, one of which wraps around     *)
(* RAM, and one that enables the channels too late; and there is a file    *)
(* of the wrong size, and none.  Instruction k is word k; all others are   *)
(* an invalid opcode.                                                      *)
(***************************************************************************)
EXTENDS MachineHistory, Assembler, Sequences

Arithmetic == INSTANCE R3000Alu WITH WordBits <- 4 * ByteBits

AluOf(h, a, b)         == Arithmetic!AluOf(h, a, b)
MulDivOf(h, a, b)      == Arithmetic!MulDivOf(h, a, b)
MergeOf(h, reg, m, k)  == Arithmetic!MergeOf(h, reg, m, k)

-----------------------------------------------------------------------------
(* Register 1 points at the end of the controller's registers, 7 at the    *)
(* vector, 8 at the end of the BIOS, where the handler is.                 *)
Begin == << Mtc0(0, 12), Lui(1, 9), Lui(7, 128), Ori(7, 7, 32), Lui(8, 189),
            Lw(9, 236, 8), Lw(10, 240, 8), Sw(9, 0, 7), Lw(9, 244, 8), Sw(10, 4, 7),
            Lw(10, 248, 8), Sw(9, 8, 7), Lw(9, 252, 8), Sw(10, 12, 7), Sw(10, 16, 7),
            Sb(10, 17, 7), Lhu(10, 16, 7), Lbu(11, 17, 7), Sw(9, 16, 7) >>

Handling == << Mfc0(26, 14), Nop, Addiu(26, 26, 4), Jr(26), Rfe >>

Enable    == << Ori(2, 0, 136), Sw(2, 240, 1), Lui(2, 11), Sw(2, 244, 1) >>
Build(base, size) == << Ori(3, 0, base), Sw(3, 224, 1), Ori(3, 0, size), Sw(3, 228, 1),
                        Lui(3, 80), Sw(3, 232, 1) >>
Send(base)        == << Ori(3, 0, base), Sw(3, 160, 1), Lui(3, 16), Ori(3, 3, 65), Sw(3, 168, 1) >>
Bltz(s, k)        == IType(1, s, 0, k)
Poll(chcr)        == << Lw(4, chcr, 1), Nop, Sll(5, 4, 3), Bltz(5, 252), Nop >>
Close             == << Lw(11, 244, 1), Nop, Sw(11, 244, 1), Lw(12, 244, 1), Syscall, Ori(6, 0, 1) >>

Idling(k) == << J(768 + k), Nop >>

Early(base, size) == Begin \o Enable \o Build(base, size) \o Poll(232) \o Send(base) \o Poll(168) \o Close
Late(base, size)  == Begin \o Build(base, size) \o Enable \o Poll(232) \o Send(base) \o Poll(168) \o Close

(* The program, padded so that the handler ends the BIOS.                  *)
Filled(p) ==
  LET q == p \o Idling(Len(p)) IN q \o [k \in 1 .. BiosSize \div 4 - Len(q) - 5 |-> Nop] \o Handling

Tables    == { << 28, 8 >>, << 4, 4 >>, << 0, 1 >> }   \* base and number of words
Boots(t)  == Filled(Early(t[1], t[2]))
TooLate   == Filled(Late(28, 8))

Words     == << Nop >> \o Boots(<< 28, 8 >>) \o Boots(<< 4, 4 >>) \o Boots(<< 0, 1 >>) \o TooLate
CodeIn(words, i) ==
  (CHOOSE k \in DOMAIN words : words[k] = i /\ \A j \in 1 .. k - 1 : words[j] # i) - 1
Code(i)   == CodeIn(Words, i)
FileOf(p) ==
  LET words == Words
      codes == [a \in Rom |-> Bits(CodeIn(words, p[(a \div 4) + 1]))]
  IN  [a \in Rom |-> Lane(codes[a], a % 4)]

GoodFile  == [t \in Tables |-> FileOf(Boots(t))]
LateFile  == FileOf(TooLate)
TheFiles  == { GoodFile[t] : t \in Tables } \cup { LateFile, Null, [a \in 0 .. 3 |-> {}] }

Invalid      == JType(63, 0)
TheDecode(w) == IF Number[w] < Len(Words) THEN Words[Number[w] + 1] ELSE Invalid
Decodable    == { Words[k] : k \in DOMAIN Words } \cup {Invalid}

(* The words the program may load: the handler's, CHCR's idle and busy,    *)
(* DICR's, and the byte and the half that it stores of a word.             *)
Pending  == \hbb00
Settled  == \h0b00
LowByte  == Code(Jr(26)) % ByteSize
TheData  == { Code(Handling[k]) : k \in 1 .. 5 } \cup { LowByte, 16 * LowByte, 17 * LowByte }
              \cup { \h4000, \h5000, \h0041, \h1041, Pending, Settled }

TheFill  == {1, 3}
TheStray == { {0, 5} }
NoAnswer == {-2}
TheSlot(c) == IF c = GPU THEN 0 ELSE 1
TheBoot  == { [r \in 0 .. 31 |-> IF r = 12 THEN sr ELSE 0] : sr \in {0, IsCBit} }
ZeroStale == {0}

-----------------------------------------------------------------------------
Finished == gpr[6] = 1
RamWord(a) == Load(kuseg, a, 4)

(* A BIOS that enables the channels in time gets to its end: both busy     *)
(* bits clear, the exception returns.                                      *)
BiosCompletes ==
  \A t \in Tables : (running /\ bseg = GoodFile[t]) ~> Finished

(* By then the table is in RAM, linked downwards from its base and marked  *)
(* at its end, the handler is at its vector, everything else is as the     *)
(* boot left it, and the program has seen both channels' flags in DICR,    *)
(* and seen them gone once it had written them back.                       *)
InTable(t, a) == (t[1] - a) % RamSize < 4 * t[2]
TableWord(t, a) ==
  IF (t[1] - a) % RamSize = 4 * (t[2] - 1) THEN 0 .. 11 ELSE Bits((a - 4) % RamSize)

EndsAsAsked ==
  Finished =>
    \E t \in Tables :
      /\ bseg = GoodFile[t]
      /\ \A a \in { 4 * k : k \in 0 .. 15 } :
           RamWord(a) = IF InTable(t, a) THEN TableWord(t, a)
                        ELSE IF a \in 32 .. 51 THEN Bits(Code(Handling[(a - 32) \div 4 + 1]))
                        ELSE UNION { InLane(Fill, j) : j \in 0 .. 3 }
      /\ gpr[11] = Pending /\ gpr[12] = Settled
=============================================================================
