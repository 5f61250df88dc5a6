------------------------------ MODULE Vc4Encode ------------------------------
(***************************************************************************)
(* The vc4 instruction encoder, src/Lib/Target/Encode.cpp: each target     *)
(* instruction becomes a pair of 32-bit words (high, low), built by OR-ing *)
(* shifted fields, or the encoder stops with an assert or exit.            *)
(*                                                                         *)
(* TLC's integers are signed 32-bit, so a 32-bit word is a pair            *)
(* <<bits 24..31, bits 0..23>>; a field shifted past bit 31 is truncated   *)
(* as in uint32_t, and a field too wide for its slot spills into the next  *)
(* one exactly as the code's OR does.                                      *)
(*                                                                         *)
(* A reference decoder, written from the VideoCore IV reference guide's   *)
(* instruction formats and register address map (not from the encoder),  *)
(* turns words back into instructions for the round-trip law of spec 8.   *)
(***************************************************************************)
EXTENDS Integers, Sequences, FiniteSets, Bitwise, QpuInstr

CONSTANT Inputs   \* the instructions handed to the encoder

VARIABLES instr, status, code

vars == <<instr, status, code>>

-----------------------------------------------------------------------------
(* 32-bit words                                                            *)

Word(hi, lo) == <<hi, lo>>
Words == (0..255) \X (0..(2^24 - 1))

\* v << p as a uint32_t (v < 2^7).
Shl(v, p) ==
    IF p >= 24 THEN Word((v * 2^(p - 24)) % 256, 0)
    ELSE Word((v \div 2^(24 - p)) % 256, (v * 2^p) % 2^24)

\* Faulty variant: a negative value is not wrapped to 32 bits.
U32NoWrap(v) == Word(v \div 2^24, v % 2^24)

\* (uint32_t) v for a signed integer v.
U32(v) == Word((v \div 2^24) % 256, v % 2^24)

WOr(x, y) == Word(x[1] | y[1], x[2] | y[2])

RECURSIVE WOrAll(_)
WOrAll(s) == IF s = <<>> THEN Word(0, 0) ELSE WOr(Head(s), WOrAll(Tail(s)))

\* Bits lo .. lo+n-1 of a word (a field lies in one of the two parts).
Bits(w, lo, n) ==
    IF lo >= 24 THEN (w[1] \div 2^(lo - 24)) % 2^n ELSE (w[2] \div 2^lo) % 2^n

Signed(w) == IF w[1] >= 128 THEN (w[1] - 256) * 2^24 + w[2] ELSE w[1] * 2^24 + w[2]

-----------------------------------------------------------------------------
(* Opcode and condition tables                                             *)

\* encodeAddOp()
EncodeAddOp ==
    [NOP |-> 0, A_FADD |-> 1, A_FSUB |-> 2, A_FMIN |-> 3, A_FMAX |-> 4,
     A_FMINABS |-> 5, A_FMAXABS |-> 6, A_FtoI |-> 7, A_ItoF |-> 8,
     A_ADD |-> 12, A_SUB |-> 13, A_SHR |-> 14, A_ASR |-> 15, A_ROR |-> 16,
     A_SHL |-> 17, A_MIN |-> 18, A_MAX |-> 19, A_BAND |-> 20, A_BOR |-> 21,
     A_BXOR |-> 22, A_BNOT |-> 23, A_CLZ |-> 24, A_V8ADDS |-> 30, A_V8SUBS |-> 31]

\* encodeMulOp()
EncodeMulOp ==
    [NOP |-> 0, M_FMUL |-> 1, M_MUL24 |-> 2, M_V8MUL |-> 3, M_V8MIN |-> 4,
     M_V8MAX |-> 5, M_V8ADDS |-> 6, M_V8SUBS |-> 7]

\* encodeAssignCond()
EncodeAssignCond == [never |-> 0, always |-> 1, zs |-> 2, zc |-> 3, ns |-> 4, nc |-> 5]

\* encodeBranchCond(); "never" is an exit.
EncodeBranchCond ==
    [always |-> 15, all_zs |-> 0, all_zc |-> 1, all_ns |-> 4, all_nc |-> 5,
     any_zs |-> 2, any_zc |-> 3, any_ns |-> 6, any_nc |-> 7]

-----------------------------------------------------------------------------
(* Register encoders.  A result is a record with ok = FALSE for an assert  *)
(* or exit.                                                                *)

Fail == [ok |-> FALSE, file |-> "NONE", idx |-> 0, mux |-> 0]
Res(f, i, m) == [ok |-> TRUE, file |-> f, idx |-> i, mux |-> m]

\* Write address of each writable special register, and its forced file.
DestSpecial ==
    [RD_SETUP |-> <<"REG_A", 49>>, WR_SETUP |-> <<"REG_B", 49>>,
     DMA_LD_ADDR |-> <<"REG_A", 50>>, DMA_ST_ADDR |-> <<"REG_B", 50>>,
     VPM_WRITE |-> <<"AorB", 48>>, HOST_INT |-> <<"AorB", 38>>,
     TMU0_S |-> <<"AorB", 56>>, SFU_RECIP |-> <<"AorB", 52>>,
     SFU_RECIPSQRT |-> <<"AorB", 53>>, SFU_EXP |-> <<"AorB", 54>>,
     SFU_LOG |-> <<"AorB", 55>>]

\* encodeDestReg(): the file to write and the write address.  A special
\* register without a write address falls through to the NONE case.
EncodeDestReg(reg) ==
    LET AorB == IF reg.tag \in {"REG_A", "REG_B"} THEN reg.tag ELSE "REG_A"
        asNone == Res(AorB, 39, 0)
    IN CASE reg.tag \in {"REG_A", "REG_B"} ->
              IF reg.regId \in 0..31 THEN Res(reg.tag, reg.regId, 0) ELSE Fail
         [] reg.tag = "ACC" ->
              IF reg.regId \in 0..5
              THEN Res(IF reg.regId = 5 THEN "REG_B" ELSE AorB, 32 + reg.regId, 0)
              ELSE Fail
         [] reg.tag = "SPECIAL" ->
              IF reg.regId \in DOMAIN DestSpecial
              THEN LET e == DestSpecial[reg.regId]
                   IN Res(IF e[1] = "AorB" THEN AorB ELSE e[1], e[2], 0)
              ELSE asNone
         [] reg.tag = "NONE" -> asNone
         [] OTHER -> Fail

\* Read address of each readable special register, and the file it must
\* be read from ("AorB": either).
SrcSpecial ==
    [UNIFORM |-> <<"AorB", 32>>, ELEM_NUM |-> <<"REG_A", 38>>,
     QPU_NUM |-> <<"REG_B", 38>>, VPM_READ |-> <<"AorB", 48>>,
     DMA_LD_WAIT |-> <<"REG_A", 50>>, DMA_ST_WAIT |-> <<"REG_B", 50>>]

\* encodeSrcReg(): the read address in the given file and the mux value.
EncodeSrcReg(reg, file) ==
    LET AorB == IF file = "REG_A" THEN 6 ELSE 7
    IN CASE reg.tag \in {"REG_A", "REG_B"} ->
              IF reg.regId \in 0..31 /\ file = reg.tag
              THEN Res(file, reg.regId, AorB) ELSE Fail
         [] reg.tag = "ACC" ->
              IF reg.regId \in 0..4 THEN Res(file, 0, reg.regId) ELSE Fail
         [] reg.tag = "NONE" -> Res(file, 39, AorB)
         [] reg.tag = "SPECIAL" /\ reg.regId \in DOMAIN SrcSpecial ->
              LET e == SrcSpecial[reg.regId]
              IN IF e[1] \in {"AorB", file} THEN Res(file, e[2], AorB) ELSE Fail
         [] OTHER -> Fail

\* Faulty variant: only register-file registers have a fixed file.
RegFileOfNoSpecials(reg) == IF reg.tag \in {"REG_A", "REG_B"} THEN reg.tag ELSE "NONE"

\* regFileOf() (Target/Syntax.cpp, not under src/): the file a register
\* can only be read from, or NONE.
RegFileOf(reg) ==
    CASE reg.tag \in {"REG_A", "REG_B"} -> reg.tag
      [] reg.tag = "SPECIAL" /\ reg.regId \in {"ELEM_NUM", "DMA_LD_WAIT"} -> "REG_A"
      [] reg.tag = "SPECIAL" /\ reg.regId \in {"QPU_NUM", "DMA_ST_WAIT"} -> "REG_B"
      [] OTHER -> "NONE"

-----------------------------------------------------------------------------
(* encodeInstr()                                                           *)

\* The pseudo-instructions IRQ and DMA_LOAD_WAIT/DMA_STORE_WAIT are first
\* rewritten as an LI of 1 to HOST_INT and a never-executed BOR of the wait
\* register with itself.
Expand(i) ==
    CASE i.tag = "IRQ" -> LI("always", FALSE, Special("HOST_INT"), 1)
      [] i.tag \in {"DMA_LOAD_WAIT", "DMA_STORE_WAIT"} ->
           LET src == Special(IF i.tag = "DMA_LOAD_WAIT" THEN "DMA_LD_WAIT" ELSE "DMA_ST_WAIT")
           IN ALU("A_BOR", "never", FALSE, NoneReg, RegOp(src), RegOp(src))
      [] OTHER -> i

Enc(ok, high, low) == [ok |-> ok, high |-> high, low |-> low]
EncFail == Enc(FALSE, Word(0, 0), Word(0, 0))

\* The read addresses and mux values of a non-rotate ALU's two operands.
Ports(ok, ra, rb, ma, mb) == [ok |-> ok, raddra |-> ra, raddrb |-> rb, muxa |-> ma, muxb |-> mb]

EncodeOperands(a, b) ==
    CASE a.tag = "REG" /\ b.tag = "REG" ->
           LET aFile == RegFileOf(a.reg)
               bFile == RegFileOf(b.reg)
           IN IF a.reg.tag # "NONE" /\ a.reg = b.reg
              THEN IF aFile = "REG_A"
                   THEN LET x == EncodeSrcReg(a.reg, "REG_A") IN Ports(x.ok, x.idx, 39, x.mux, x.mux)
                   ELSE LET x == EncodeSrcReg(a.reg, "REG_B") IN Ports(x.ok, 39, x.idx, x.mux, x.mux)
              ELSE IF ~(aFile = "NONE" \/ bFile = "NONE" \/ aFile # bFile)
              THEN Ports(FALSE, 0, 0, 0, 0)
              ELSE IF aFile = "REG_A" \/ bFile = "REG_B"
              THEN LET x == EncodeSrcReg(a.reg, "REG_A")
                       y == EncodeSrcReg(b.reg, "REG_B")
                   IN Ports(x.ok /\ y.ok, x.idx, y.idx, x.mux, y.mux)
              ELSE LET x == EncodeSrcReg(a.reg, "REG_B")
                       y == EncodeSrcReg(b.reg, "REG_A")
                   IN Ports(x.ok /\ y.ok, y.idx, x.idx, x.mux, y.mux)
      [] b.tag = "IMM" ->
           LET x == EncodeSrcReg(a.reg, "REG_A") IN Ports(x.ok, x.idx, b.val, x.mux, 7)
      [] a.tag = "IMM" ->
           LET x == EncodeSrcReg(b.reg, "REG_A") IN Ports(x.ok, x.idx, a.val, 7, x.mux)

\* Faulty variant: the add ALU's write-swap rule used for the mul ALU too.
WriteSwapAddRule(isMul, file) == IF file = "REG_A" THEN 0 ELSE 1

\* The write-swap bit: the add ALU writes file A unless ws is set, the mul
\* ALU writes file B unless ws is set.
WriteSwap(isMul, file) ==
    IF isMul THEN (IF file = "REG_B" THEN 0 ELSE 1) ELSE (IF file = "REG_A" THEN 0 ELSE 1)

\* The ALU case: the high word, then the rotate or the general low word.
EncodeALU(i) ==
    LET isMul  == IsMulOp(i.op)
        hasImm == i.srcA.tag = "IMM" \/ i.srcB.tag = "IMM"
        isRot  == i.op = "M_ROTATE"
        d      == EncodeDestReg(i.dest)
        ws     == WriteSwap(isMul, d.file)
        high   == WOrAll(<<Shl(IF hasImm \/ isRot THEN 13 ELSE 1, 28),
                           Shl(EncodeAssignCond[i.cond], IF isMul THEN 14 ELSE 17),
                           Shl(ws, 12), Shl(IF i.setFlags THEN 1 ELSE 0, 13),
                           Shl(IF isMul THEN 39 ELSE d.idx, 6),
                           Shl(IF isMul THEN d.idx ELSE 39, 0)>>)
    IN IF ~d.ok THEN EncFail
       ELSE IF isRot
       THEN IF /\ i.srcA = RegOp(Reg("ACC", 0))
               /\ i.srcB.tag = "REG" => i.srcB.reg = Reg("ACC", 5)
            THEN LET raddrb == IF i.srcB.tag = "REG" THEN 48 ELSE 48 + i.srcB.val
                 IN Enc(TRUE, high, WOrAll(<<Shl(EncodeMulOp["M_V8MIN"], 29),
                                            Shl(raddrb, 12), Shl(39, 18)>>))
            ELSE EncFail
       ELSE LET p == EncodeOperands(i.srcA, i.srcB)
            IN IF ~p.ok THEN EncFail
               ELSE Enc(TRUE, high,
                        WOrAll(<<Shl(IF isMul THEN EncodeMulOp[i.op] ELSE 0, 29),
                                 Shl(IF isMul THEN 0 ELSE EncodeAddOp[i.op], 24),
                                 Shl(p.raddra, 18), Shl(p.raddrb, 12),
                                 Shl(p.muxa, 9), Shl(p.muxb, 6),
                                 Shl(p.muxa, 3), Shl(p.muxb, 0)>>))

\* The idle write addresses waddr_add = 39 << 6 and waddr_mul = 39.
NoWrite == WOr(Shl(39, 6), Shl(39, 0))

EncodeInstr(instr0) ==
    LET i == Expand(instr0) IN
    CASE i.tag = "LI" ->
           LET d == EncodeDestReg(i.dest) IN
           IF ~d.ok THEN EncFail
           ELSE Enc(TRUE,
                    WOrAll(<<Shl(14, 28), Shl(EncodeAssignCond[i.cond], 17),
                             Shl(IF d.file = "REG_A" THEN 0 ELSE 1, 12),
                             Shl(IF i.setFlags THEN 1 ELSE 0, 13),
                             Shl(d.idx, 6), Shl(39, 0)>>),
                    U32(i.imm))
      [] i.tag = "BR" ->
           IF i.cond = "never" THEN EncFail
           ELSE Enc(TRUE,
                    WOrAll(<<Shl(15, 28), Shl(EncodeBranchCond[i.cond], 20),
                             Shl(IF i.relative THEN 1 ELSE 0, 19), NoWrite>>),
                    U32(8 * i.immOffset))
      [] i.tag = "ALU" -> EncodeALU(i)
      [] i.tag \in {"END", "TMU0_TO_ACC4"} ->
           Enc(TRUE, WOr(Shl(IF i.tag = "END" THEN 3 ELSE 10, 28), NoWrite),
               WOr(Shl(39, 18), Shl(39, 12)))
      [] i.tag \in {"SINC", "SDEC"} ->
           Enc(TRUE, WOr(Shl(232, 24), NoWrite),
               WOr(Shl(IF i.tag = "SINC" THEN 0 ELSE 1, 4), Shl(i.semaId, 0)))
      [] i.tag \in {"NO_OP", "PRI", "PRS", "PRF"} ->
           Enc(TRUE, WOr(Shl(14, 28), NoWrite), Word(0, 0))
      [] OTHER -> EncFail

-----------------------------------------------------------------------------
(* encode(): the instruction's two words, low first, or the encoder stops. *)

Init == instr \in Inputs /\ status = "none" /\ code = <<>>

\* The loop body of encode(): encodeInstr, then code->append(low) and
\* code->append(high); or the encoder stops.
Encode ==
    /\ status = "none"
    /\ LET r == EncodeInstr(instr)
       IN IF r.ok THEN status' = "ok" /\ code' = <<r.low, r.high>>
          ELSE status' = "error" /\ code' = code
    /\ UNCHANGED instr

Next == Encode

Spec == Init /\ [][Next]_vars

-----------------------------------------------------------------------------
(* Reference decoder (VideoCore IV reference guide, instruction encodings  *)
(* and register address map).  It yields the instruction the hardware      *)
(* executes; an LI that never writes is the no-op.                          *)

AssignCondOf(c) == IF c \in 0..5 THEN <<"never", "always", "zs", "zc", "ns", "nc">>[c + 1] ELSE "invalid"

BranchCondOf ==
    [c \in 0..15 |-> CASE c = 15 -> "always"
                       [] c \in 0..7 -> <<"all_zs", "all_zc", "any_zs", "any_zc",
                                          "all_ns", "all_nc", "any_ns", "any_nc">>[c + 1]
                       [] OTHER -> "invalid"]

AddOpOf(n) == IF \E op \in DOMAIN EncodeAddOp : EncodeAddOp[op] = n
              THEN CHOOSE op \in DOMAIN EncodeAddOp : EncodeAddOp[op] = n ELSE "invalid"
MulOpOf(n) == CHOOSE op \in DOMAIN EncodeMulOp : EncodeMulOp[op] = n

\* The register a read address names in file f.
ReadReg(a, f) ==
    CASE a \in 0..31 -> Reg(f, a)
      [] a = 32 -> Special("UNIFORM")
      [] a = 38 -> Special(IF f = "REG_A" THEN "ELEM_NUM" ELSE "QPU_NUM")
      [] a = 39 -> NoneReg
      [] a = 48 -> Special("VPM_READ")
      [] a = 50 -> Special(IF f = "REG_A" THEN "DMA_LD_WAIT" ELSE "DMA_ST_WAIT")
      [] OTHER -> Reg("INVALID", a)

\* The register a write address names in file f.
WriteReg(a, f) ==
    CASE a \in 0..31 -> Reg(f, a)
      [] a \in 32..37 -> Reg("ACC", a - 32)
      [] a = 38 -> Special("HOST_INT")
      [] a = 39 -> NoneReg
      [] a = 48 -> Special("VPM_WRITE")
      [] a = 49 -> Special(IF f = "REG_A" THEN "RD_SETUP" ELSE "WR_SETUP")
      [] a = 50 -> Special(IF f = "REG_A" THEN "DMA_LD_ADDR" ELSE "DMA_ST_ADDR")
      [] a \in 52..55 -> Special(<<"SFU_RECIP", "SFU_RECIPSQRT", "SFU_EXP", "SFU_LOG">>[a - 51])
      [] a = 56 -> Special("TMU0_S")
      [] OTHER -> Reg("INVALID", a)

DecodeALU(high, low) ==
    LET sig    == Bits(high, 28, 4)
        opAdd  == Bits(low, 24, 5)
        opMul  == Bits(low, 29, 3)
        isMul  == opAdd = 0 /\ opMul # 0
        wsB    == Bits(high, 12, 1) = 1
        \* the add ALU writes file A unless ws, the mul ALU file B unless ws
        file   == IF isMul = wsB THEN "REG_A" ELSE "REG_B"
        dest   == WriteReg(IF isMul THEN Bits(high, 0, 6) ELSE Bits(high, 6, 6), file)
        cond   == AssignCondOf(Bits(high, IF isMul THEN 14 ELSE 17, 3))
        sf     == Bits(high, 13, 1) = 1
        raddra == Bits(low, 18, 6)
        raddrb == Bits(low, 12, 6)
        operand(mux) ==
            CASE mux <= 5 -> RegOp(Reg("ACC", mux))
              [] mux = 6 -> RegOp(ReadReg(raddra, "REG_A"))
              [] sig = 13 -> ImmOp(raddrb)
              [] OTHER -> RegOp(ReadReg(raddrb, "REG_B"))
        muxA == Bits(low, IF isMul THEN 3 ELSE 9, 3)
        muxB == Bits(low, IF isMul THEN 0 ELSE 6, 3)
    IN IF sig = 13 /\ raddrb >= 48 /\ opMul = EncodeMulOp["M_V8MIN"] /\ muxA = 0 /\ muxB = 0
       THEN ALU("M_ROTATE", cond, sf, dest, RegOp(Reg("ACC", 0)),
                IF raddrb = 48 THEN RegOp(Reg("ACC", 5)) ELSE ImmOp(raddrb - 48))
       ELSE ALU(IF isMul THEN MulOpOf(opMul) ELSE AddOpOf(opAdd), cond, sf, dest,
                operand(muxA), operand(muxB))

Decode(c) ==
    LET low == c[1]
        high == c[2]
        sig == Bits(high, 28, 4)
    IN CASE sig = 15 ->
              BR(BranchCondOf[Bits(high, 20, 4)], Bits(high, 19, 1) = 1, Signed(low) \div 8)
         [] sig = 14 /\ Bits(high, 25, 3) = 4 ->
              Sema(IF Bits(low, 4, 1) = 0 THEN "SINC" ELSE "SDEC", Bits(low, 0, 4))
         [] sig = 14 /\ Bits(high, 17, 3) = 0 -> Simple("NO_OP")
         [] sig = 14 ->
              LI(AssignCondOf(Bits(high, 17, 3)), Bits(high, 13, 1) = 1,
                 WriteReg(Bits(high, 6, 6), IF Bits(high, 12, 1) = 0 THEN "REG_A" ELSE "REG_B"),
                 Signed(low))
         [] sig = 3 -> Simple("END")
         [] sig = 10 -> Simple("TMU0_TO_ACC4")
         [] sig \in {1, 13} -> DecodeALU(high, low)
         [] OTHER -> Simple("INVALID")

\* What an instruction means to the hardware (spec 3 and 4.5): print
\* instructions and never-executed loads are no-ops, IRQ writes 1 to
\* HOST_INT, a DMA wait is a read of the wait register that writes nothing.
Meaning(i) ==
    CASE i.tag \in {"NO_OP", "PRI", "PRS", "PRF"} -> Simple("NO_OP")
      [] i.tag = "LI" /\ i.cond = "never" -> Simple("NO_OP")
      [] i.tag = "IRQ" -> LI("always", FALSE, Special("HOST_INT"), 1)
      [] i.tag = "DMA_LOAD_WAIT" ->
           ALU("A_BOR", "never", FALSE, NoneReg, RegOp(Special("DMA_LD_WAIT")), RegOp(Special("DMA_LD_WAIT")))
      [] i.tag = "DMA_STORE_WAIT" ->
           ALU("A_BOR", "never", FALSE, NoneReg, RegOp(Special("DMA_ST_WAIT")), RegOp(Special("DMA_ST_WAIT")))
      [] OTHER -> i

\* Reference definition of the instructions a vc4 QPU can execute: the
\* destination has a write address; a branch condition is not never; a
\* rotate reads r0 and rotates by r5 or by 1..15; otherwise the register
\* operands other than accumulators fit the two read ports, each in a file
\* it can be read from, and a small immediate takes port B.
ReadFiles(r) ==
    CASE r.tag \in {"REG_A", "REG_B"} -> {r.tag}
      [] r.tag = "SPECIAL" /\ r.regId \in DOMAIN SrcSpecial ->
           IF SrcSpecial[r.regId][1] = "AorB" THEN {"REG_A", "REG_B"} ELSE {SrcSpecial[r.regId][1]}
      [] r.tag = "NONE" -> {"REG_A", "REG_B"}
      [] OTHER -> {}

Writable(r) ==
    \/ r.tag \in {"REG_A", "REG_B"} /\ r.regId \in 0..31
    \/ r.tag = "ACC" /\ r.regId \in 0..5
    \/ r.tag = "NONE"
    \/ r.tag = "SPECIAL" /\ r.regId \in DOMAIN DestSpecial

PortsSuffice(a, b) ==
    LET regs == {o.reg : o \in {x \in {a, b} : x.tag = "REG" /\ x.reg.tag # "ACC"}}
        imms == {x \in {a, b} : x.tag = "IMM"}
        ports == IF imms = {} THEN {"REG_A", "REG_B"} ELSE {"REG_A"}
    IN /\ Cardinality(imms) <= 1
       /\ \A o \in {x \in {a, b} : x.tag = "REG" /\ x.reg.tag = "ACC"} : o.reg.regId \in 0..5
       /\ \E f \in [regs -> ports] :
              /\ \A r \in regs : f[r] \in ReadFiles(r)
              /\ \A r, q \in regs : r # q => f[r] # f[q]

Encodable(i0) ==
    LET i == Meaning(i0) IN
    CASE i.tag = "LI" -> Writable(i.dest)
      [] i.tag = "BR" -> i.cond # "never"
      [] i.tag = "ALU" /\ i.op = "M_ROTATE" ->
           /\ Writable(i.dest)
           /\ i.srcA = RegOp(Reg("ACC", 0))
           /\ i.srcB \in {RegOp(Reg("ACC", 5))} \cup {ImmOp(n) : n \in 1..15}
      [] i.tag = "ALU" -> Writable(i.dest) /\ PortsSuffice(i.srcA, i.srcB)
      [] OTHER -> i.tag \in {"NO_OP", "END", "TMU0_TO_ACC4", "SINC", "SDEC"}

-----------------------------------------------------------------------------
(* Properties                                                              *)

\* Type invariant: the encoder produced two 32-bit words or stopped.
TypeOK ==
    /\ status \in {"none", "ok", "error"}
    /\ code \in Seq(Words)
    /\ status = "ok" <=> Len(code) = 2

\* Round trip (spec 8: the vc4 encoder is the inverse of an independent
\* decoder on every instruction it accepts): the words encodeInstr writes
\* decode to the instruction it was given, so no field spills into
\* another, no operand lands in the wrong port or mux, and the write-swap
\* bit sends the result to the named file.
RoundTrip == status = "ok" => Decode(code) = Meaning(instr)

\* encodeInstr stops (assert or exit) exactly on the instructions the QPU
\* cannot execute: its case analysis of operand files (the same-register
\* case, the A/B swap, the immediate cases) neither rejects an encodable
\* operand pair nor lets an unencodable one through.
AcceptedIffEncodable == status # "none" => ((status = "ok") = Encodable(instr))
=============================================================================
