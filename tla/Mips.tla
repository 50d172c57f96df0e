-------------------------------- MODULE Mips --------------------------------
(***************************************************************************)
(* What each instruction of the simulated MIPS does to the registers and   *)
(* to the word of memory it touches (machine/mipssim.cc), without          *)
(* translation, exceptions and interrupts, which Cpu adds.  A word has     *)
(* WordSize bits, 32 in the code, and is a signed number, as an int is;    *)
(* addresses count bytes, four to a word, low byte first.  Which bits make *)
(* which instruction is left open: Decode gives the instruction of a word, *)
(* an op, three registers and "extra".                                     *)
(***************************************************************************)
EXTENDS Integers

CONSTANTS WordSize,  \* bits of a word, a multiple of four
          R31,       \* the last general register, which links
          Decode     \* Instruction::Decode: the instruction of each word

ASSUME MipsAssumption == WordSize \in {4 * k : k \in 1 .. 8} /\ R31 \in Nat \ {0}

HalfSize == WordSize \div 2
ByteSize == WordSize \div 4

\* An int of n bits: its bit pattern as a number, and the signed number of one.
Bits(x, n)   == x % (2 ^ n)
Signed(x, n) == IF Bits(x, n) < 2 ^ (n - 1) THEN Bits(x, n) ELSE Bits(x, n) - 2 ^ n

Unsigned(x) == Bits(x, WordSize)
Int32(x)    == Signed(x, WordSize)
Word        == -(2 ^ (WordSize - 1)) .. (2 ^ (WordSize - 1)) - 1

GprNames == 0 .. R31

\* What the fields of an instruction can hold: a shift distance has five bits of 32.
ASSUME DecodeAssumption ==
  \A word \in Word : LET i == Decode[word] IN
    /\ {i.rs, i.rt, i.rd} \subseteq GprNames
    /\ i.extra \in Word
    /\ i.op \in {"SLL", "SRA", "SRL"} => i.extra \in 0 .. WordSize - 1

Registers == [gpr : [GprNames -> Word], pc : Word, nextPC : Word, hi : Word, lo : Word,
              loadReg : GprNames, loadValue : Word]

\* AddrSpace::InitRegisters, up to the stack pointer.
InitRegisters ==
  [gpr |-> [g \in GprNames |-> 0], pc |-> 0, nextPC |-> 4, hi |-> 0, lo |-> 0,
   loadReg |-> 0, loadValue |-> 0]

\* Machine::DelayedLoad.
DelayedLoad(r, reg, value) ==
  [r EXCEPT !.gpr = [@ EXCEPT ![r.loadReg] = r.loadValue, ![0] = 0],
            !.loadReg = reg, !.loadValue = value]

Settled(r) == DelayedLoad(r, 0, 0)

\* &, | and ^ of C, bit by bit.
Bit(x, n) == (x \div 2 ^ n) % 2

WithBits(bit) ==
  CHOOSE x \in 0 .. 2 ^ WordSize - 1 : \A n \in 0 .. WordSize - 1 : Bit(x, n) = bit[n]

And(a, b) == WithBits([n \in 0 .. WordSize - 1 |-> Bit(a, n) * Bit(b, n)])
Or(a, b)  == WithBits([n \in 0 .. WordSize - 1 |-> IF Bit(a, n) + Bit(b, n) = 0 THEN 0 ELSE 1])
Xor(a, b) == WithBits([n \in 0 .. WordSize - 1 |-> (Bit(a, n) + Bit(b, n)) % 2])

-----------------------------------------------------------------------------
(***************************************************************************)
(* Arithmetic                                                              *)
(***************************************************************************)

\* The tests of OP_ADD, OP_ADDI (with b the immediate) and OP_SUB, by signs.
OverflowsBySign(op, a, b) ==
  CASE op = "ADD"  -> (a < 0) = (b < 0) /\ (a < 0) # (Int32(a + b) < 0)
    [] op = "ADDI" -> (a < 0) = (b < 0) /\ (b < 0) # (Int32(a + b) < 0)
    [] op = "SUB"  -> (a < 0) # (b < 0) /\ (a < 0) # (Int32(a - b) < 0)
    [] OTHER       -> FALSE

\* C's / and %, which round towards zero.
Magnitude(x) == IF x < 0 THEN -x ELSE x

Quotient(a, b) ==
  IF (a < 0) = (b < 0) THEN Magnitude(a) \div Magnitude(b)
                       ELSE -(Magnitude(a) \div Magnitude(b))

\* OP_DIV and OP_DIVU.
Div(a, b)  == IF b = 0 THEN [hi |-> 0, lo |-> 0]
              ELSE [hi |-> Int32(a - b * Quotient(a, b)), lo |-> Int32(Quotient(a, b))]

DivU(a, b) == IF b = 0 THEN [hi |-> 0, lo |-> 0]
              ELSE [hi |-> Int32(Unsigned(a) % Unsigned(b)),
                    lo |-> Int32(Unsigned(a) \div Unsigned(b))]

\* Mutant of AddBit: the carry out of the low word is lost.
AddBitNoCarry(s) ==
  [s EXCEPT !.lo = Unsigned(s.lo + s.bLo), !.hi = Unsigned(s.hi + s.bHi)]

\* A round of the loop of Mult in which the lowest bit of a is set ...
AddBit(s) ==
  LET lo == Unsigned(s.lo + s.bLo) IN
  [s EXCEPT !.lo = lo,
            !.hi = Unsigned(s.hi + (IF lo < s.bLo THEN 1 ELSE 0) + s.bHi)]

\* ... and what each round does after that; the shift of a keeps its sign.
ShiftBit(s) ==
  [s EXCEPT !.bHi = Unsigned(2 * s.bHi) + (s.bLo \div 2 ^ (WordSize - 1)),
            !.bLo = Unsigned(2 * s.bLo),
            !.a   = s.a \div 2]

\* Mult: a's bits are tested one at a time, on the absolute values when signed,
\* until none is left.
MultStart(a, b) ==
  [a |-> a, bLo |-> Unsigned(b), bHi |-> 0, lo |-> 0, hi |-> 0, done |-> FALSE]

MultRound(s) ==
  LET t == IF s.a % 2 = 1 THEN AddBit(s) ELSE s IN
  IF s.done THEN s
  ELSE IF s.a % 2 = 1 /\ Unsigned(s.a) \div 2 = 0 THEN [t EXCEPT !.done = TRUE]
  ELSE ShiftBit(t)

Mult(a, b, signedArith) ==
  LET positive(x) == IF signedArith /\ x < 0 THEN Int32(-x) ELSE x
      negative    == signedArith /\ (a < 0) # (b < 0)
      round[i \in 0 .. WordSize] == IF i = 0 THEN MultStart(positive(a), positive(b))
                                            ELSE MultRound(round[i - 1])
      s  == round[WordSize]
      lo == IF negative THEN Unsigned(-s.lo) ELSE s.lo
      hi == IF ~negative THEN s.hi
            ELSE Unsigned(-s.hi - 1 + (IF lo = 0 THEN 1 ELSE 0)) IN
  IF a = 0 \/ b = 0 THEN [hi |-> 0, lo |-> 0] ELSE [hi |-> Int32(hi), lo |-> Int32(lo)]

HiLo(i, a, b, r) ==
  CASE i.op = "MULT"  -> Mult(a, b, TRUE)
    [] i.op = "MULTU" -> Mult(a, b, FALSE)
    [] i.op = "DIV"   -> Div(a, b)
    [] i.op = "DIVU"  -> DivU(a, b)
    [] i.op = "MTHI"  -> [hi |-> a, lo |-> r.lo]
    [] i.op = "MTLO"  -> [hi |-> r.hi, lo |-> a]
    [] OTHER          -> [hi |-> r.hi, lo |-> r.lo]

-----------------------------------------------------------------------------
(***************************************************************************)
(* Results that go into a general register                                 *)
(***************************************************************************)
IntoRd == {"ADD", "ADDU", "AND", "MFHI", "MFLO", "NOR", "OR", "SLL", "SLLV", "SLT", "SLTU",
           "SRA", "SRAV", "SRL", "SRLV", "SUB", "SUBU", "XOR"}
IntoRt == {"ADDI", "ADDIU", "ANDI", "LUI", "ORI", "SLTI", "SLTIU", "XORI"}

Flag(condition) == IF condition THEN 1 ELSE 0

\* The cases of OneInstruction.  As in the code, OR takes rs for both operands,
\* and SRL and SRLV shift an int, so that the sign comes in from the left.
Result(i, a, b, r) ==
  LET imm == i.extra  low == Bits(i.extra, HalfSize)  shift == Unsigned(a) % WordSize IN
  CASE i.op \in {"ADD", "ADDU"}   -> Int32(a + b)
    [] i.op \in {"ADDI", "ADDIU"} -> Int32(a + imm)
    [] i.op \in {"SUB", "SUBU"}   -> Int32(a - b)
    [] i.op = "AND"   -> Int32(And(a, b))
    [] i.op = "ANDI"  -> Int32(And(a, low))
    [] i.op = "OR"    -> Int32(Or(a, a))
    [] i.op = "ORI"   -> Int32(Or(a, low))
    [] i.op = "XOR"   -> Int32(Xor(a, b))
    [] i.op = "XORI"  -> Int32(Xor(a, low))
    [] i.op = "NOR"   -> Int32(-1 - Or(a, b))
    [] i.op = "LUI"   -> Int32(imm * 2 ^ HalfSize)
    [] i.op = "SLL"   -> Int32(b * 2 ^ imm)
    [] i.op = "SLLV"  -> Int32(b * 2 ^ shift)
    [] i.op \in {"SRA", "SRL"}   -> b \div 2 ^ imm
    [] i.op \in {"SRAV", "SRLV"} -> b \div 2 ^ shift
    [] i.op = "SLT"   -> Flag(a < b)
    [] i.op = "SLTI"  -> Flag(a < imm)
    [] i.op = "SLTU"  -> Flag(Unsigned(a) < Unsigned(b))
    [] i.op = "SLTIU" -> Flag(Unsigned(a) < Unsigned(imm))
    [] i.op = "MFHI"  -> r.hi
    [] i.op = "MFLO"  -> r.lo

-----------------------------------------------------------------------------
(***************************************************************************)
(* Loads and stores.  LWL, LWR, SWL and SWR only get further than their    *)
(* ASSERT when the address is a multiple of four.                          *)
(***************************************************************************)
Loads  == {"LB", "LBU", "LH", "LHU", "LW", "LWL", "LWR"}
Stores == {"SB", "SH", "SW", "SWL", "SWR"}

Size(op) == CASE op \in {"LB", "LBU", "SB"} -> 1
              [] op \in {"LH", "LHU", "SH"} -> 2
              [] OTHER -> 4

Address(i, r) == Int32(r.gpr[i.rs] + i.extra)

\* The "size" bytes of a word from byte "at" on, as ReadMem gives them, and the
\* word with others there, as WriteMem leaves it.
Part(word, at, size) == Bits(Unsigned(word) \div 2 ^ (ByteSize * at), ByteSize * size)

WithPart(word, at, size, value) ==
  Int32(Unsigned(word)
        + (Bits(value, ByteSize * size) - Part(word, at, size)) * 2 ^ (ByteSize * at))

\* What a load will put in its register one instruction later.
Loaded(i, r, word) ==
  LET at  == Address(i, r) % 4
      old == IF r.loadReg = i.rt THEN r.loadValue ELSE r.gpr[i.rt] IN
  CASE i.op = "LB"  -> Signed(Part(word, at, 1), ByteSize)
    [] i.op = "LBU" -> Part(word, at, 1)
    [] i.op = "LH"  -> Signed(Part(word, at, 2), HalfSize)
    [] i.op = "LHU" -> Part(word, at, 2)
    [] i.op \in {"LW", "LWL"} -> word
    [] i.op = "LWR" -> WithPart(old, 0, 1, Part(word, 3, 1))

\* The word a store leaves in memory.
Stored(i, r, word) ==
  LET at == Address(i, r) % 4  value == r.gpr[i.rt] IN
  CASE i.op \in {"SB", "SH"}  -> WithPart(word, at, Size(i.op), value)
    [] i.op \in {"SW", "SWL"} -> value
    [] i.op = "SWR" -> WithPart(word, 3, 1, value)

-----------------------------------------------------------------------------
(***************************************************************************)
(* Jumps and branches                                                      *)
(***************************************************************************)
Jumps == {"J", "JAL", "JR", "JALR"}

\* The linking instructions write their register first.
Linked(i, r) ==
  LET after == Int32(r.nextPC + 4) IN
  CASE i.op \in {"BGEZAL", "BLTZAL", "JAL"} -> [r.gpr EXCEPT ![R31] = after]
    [] i.op = "JALR" -> [r.gpr EXCEPT ![i.rd] = after]
    [] OTHER -> r.gpr

Branches(op, a, b) ==
  CASE op = "BEQ"  -> a = b
    [] op = "BNE"  -> a # b
    [] op = "BGTZ" -> a > 0
    [] op = "BLEZ" -> a <= 0
    [] op \in {"BGEZ", "BGEZAL"} -> a >= 0
    [] op \in {"BLTZ", "BLTZAL"} -> a < 0
    [] OTHER -> FALSE

\* pcAfter: where the instruction after the next one is.  Jumps replace all but
\* its upper bits, four of 32, by extra * 4.
PcAfter(i, r, gpr) ==
  LET after == Int32(r.nextPC + 4)  region == 2 ^ (WordSize - WordSize \div 8) IN
  CASE i.op \in {"J", "JAL"}   -> Int32(after - (after % region) + ((4 * i.extra) % region))
    [] i.op \in {"JR", "JALR"} -> gpr[i.rs]
    [] Branches(i.op, gpr[i.rs], gpr[i.rt]) -> Int32(r.nextPC + 4 * i.extra)
    [] OTHER -> after

-----------------------------------------------------------------------------
\* Why OneInstruction gives up before it has changed anything: memory apart.
Raises(i, r) ==
  CASE i.op = "SYSCALL"           -> "Syscall"
    [] i.op \in {"RES", "UNIMP"}  -> "IllegalInstr"
    [] i.op \in {"ADD", "SUB"} /\ OverflowsBySign(i.op, r.gpr[i.rs], r.gpr[i.rt]) -> "Overflow"
    [] i.op = "ADDI" /\ OverflowsBySign(i.op, r.gpr[i.rs], i.extra) -> "Overflow"
    [] OTHER -> "None"

\* What ends the whole of Nachos: the ASSERTs that an address is a multiple of four,
\* and the host's own trap when the least number is divided by -1.
StopsNachos(i, r) ==
  \/ i.op \in {"LWL", "LWR", "SWL", "SWR"} /\ Address(i, r) % 4 # 0
  \/ i.op = "DIV" /\ r.gpr[i.rs] = -(2 ^ (WordSize - 1)) /\ r.gpr[i.rt] = -1

\* OneInstruction up to its end: the registers after an instruction that raises
\* nothing, "word" being what memory holds at its address.
Completed(i, r, word) ==
  LET gpr     == Linked(i, r)
      a       == gpr[i.rs]
      b       == gpr[i.rt]
      hilo    == HiLo(i, a, b, r)
      written == CASE i.op \in IntoRd -> [gpr EXCEPT ![i.rd] = Result(i, a, b, r)]
                   [] i.op \in IntoRt -> [gpr EXCEPT ![i.rt] = Result(i, a, b, r)]
                   [] OTHER -> gpr
      loads   == i.op \in Loads
      loaded  == DelayedLoad([r EXCEPT !.gpr = written, !.hi = hilo.hi, !.lo = hilo.lo],
                             IF loads THEN i.rt ELSE 0,
                             IF loads THEN Loaded(i, r, word) ELSE 0) IN
  [loaded EXCEPT !.pc = r.nextPC, !.nextPC = PcAfter(i, r, gpr)]

\* ForwardPC of userprog/exception.cc.
ForwardPC(r) == [r EXCEPT !.pc = r.nextPC, !.nextPC = Int32(r.nextPC + 4)]

-----------------------------------------------------------------------------
(***************************************************************************)
(* The arithmetic against its meaning                                      *)
(***************************************************************************)

\* Mult leaves the double-length product of its operands in hi and lo, signed
\* and unsigned, the least number (which has no absolute value) included.
MultIsExact ==
  \A a, b \in Word :
    LET s == Mult(a, b, TRUE)  u == Mult(a, b, FALSE) IN
    /\ s.hi * 2 ^ WordSize + Unsigned(s.lo) = a * b
    /\ Unsigned(u.hi) * 2 ^ WordSize + Unsigned(u.lo) = Unsigned(a) * Unsigned(b)

\* ADD, ADDI and SUB trap exactly when the true result does not fit in a word,
\* and otherwise the result is the true one.
OverflowIsExact ==
  \A a, b \in Word :
    /\ OverflowsBySign("ADD", a, b) <=> a + b \notin Word
    /\ OverflowsBySign("SUB", a, b) <=> a - b \notin Word
    /\ OverflowsBySign("ADDI", a, b) <=> a + b \notin Word

\* A byte or half-word that is stored is the one that is loaded from there, with
\* or without its sign, and the other bytes of the word stay as they were.
PartsAreSeparate ==
  \A word, value \in Word : \A size \in {1, 2} : \A at \in {k \in 0 .. 3 : k % size = 0} :
    LET after == WithPart(word, at, size, value) IN
    /\ after \in Word
    /\ Part(after, at, size) = Bits(value, ByteSize * size)
    /\ \A other \in 0 .. 3 :
         other \notin at .. (at + size - 1) => Part(after, other, 1) = Part(word, other, 1)
=============================================================================
