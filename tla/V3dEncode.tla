------------------------------ MODULE V3dEncode ------------------------------
(***************************************************************************)
(* The v3d instruction encoder, v3d::encodeInstr() in                     *)
(* src/Lib/KernelDrivers.cpp: each target instruction becomes one v3d     *)
(* instruction, built by filling in the fields of a nop-nop instruction,  *)
(* or the encoder stops at an assert.                                      *)
(*                                                                         *)
(* The v3d instruction class and its packing into a 64-bit word           *)
(* (v3d/instr/, Instr::code()) are not under src/, so the result is kept  *)
(* as its fields: the add and mul ops, their write locations, the operand *)
(* muxes, the small-immediate signal, the two read addresses and a        *)
(* uniform load.  A location is a register-file address, an accumulator,  *)
(* a raw byte stored in a read-address or mux field, or a small           *)
(* immediate.                                                              *)
(*                                                                         *)
(* The general ALU case reads locals that no path assigns (raddrb, muxa,  *)
(* muxb, and raddra for two registers).  What such a read yields is up to *)
(* the build, so it is a choice from the constant set Uninit.             *)
(* The breakpoint macro the code is sprinkled with (debug.h, not under    *)
(* src/) is a debugger hook and is left out.                              *)
(***************************************************************************)
EXTENDS Integers, FiniteSets, Functions, QpuInstr

CONSTANTS
    Inputs,   \* the instructions handed to the encoder
    Uninit    \* the bytes an unassigned uint8_t or mux local can hold

VARIABLES instr, status, out

vars == <<instr, status, out>>

REGB_OFFSET == 32
NOP_ADDR    == 39

RF(n)       == [loc |-> "rf", n |-> n]
Acc(n)      == [loc |-> "acc", n |-> n]
Byte(n)     == [loc |-> "byte", n |-> n]
SmallImm(k) == [loc |-> "imm", n |-> k]
NoLoc       == [loc |-> "none", n |-> 0]

\* A default-constructed v3d instruction: nop on both ALUs, no writes.
NopNop ==
    [addOp |-> "NOP", mulOp |-> "NOP", addW |-> NoLoc, mulW |-> NoLoc,
     addA |-> NoLoc, addB |-> NoLoc, smallImm |-> FALSE,
     raddrA |-> NoLoc, raddrB |-> NoLoc, ldunif |-> NoLoc]

\* shl(dst, src, imm) and ldunifrf(rf) of v3d/instr (spec 4.5).
Shl(d, s, k) ==
    [NopNop EXCEPT !.addOp = "SHL", !.addW = d, !.addA = s,
                   !.smallImm = TRUE, !.raddrB = SmallImm(k)]
Ldunifrf(rf) == [NopNop EXCEPT !.ldunif = RF(rf)]

\* A result: ok = FALSE where the code asserts or exits.
Ok(v) == [ok |-> TRUE, v |-> v]
Fail  == [ok |-> FALSE, v |-> NoLoc]

Uniform == Special("UNIFORM")

-----------------------------------------------------------------------------
(* Opcode tables                                                           *)

\* encodeMulOp(): only NOP and FMUL have a v3d op.
V3dMulOp == [NOP |-> "NOP", M_FMUL |-> "FMUL"]

EncodeMulOp(op) == IF op \in DOMAIN V3dMulOp THEN Ok(V3dMulOp[op]) ELSE Fail

\* encodeAddOp()
V3dAddOp ==
    [NOP |-> "NOP", A_FADD |-> "FADD", A_FSUB |-> "FSUB", A_FMIN |-> "FMIN",
     A_FMAX |-> "FMAX", A_FtoI |-> "FTOIN", A_ItoF |-> "ITOF", A_ADD |-> "ADD",
     A_SUB |-> "SUB", A_SHR |-> "SHR", A_ASR |-> "ASR", A_ROR |-> "ROR",
     A_SHL |-> "SHL", A_MIN |-> "MIN", A_MAX |-> "MAX", A_BAND |-> "AND",
     A_BOR |-> "OR", A_BXOR |-> "XOR", A_BNOT |-> "NOT", A_CLZ |-> "CLZ"]

\* Faulty variant: an op without a v3d counterpart is passed through.
EncodeAddOpUnchecked(op) == Ok(IF op \in DOMAIN V3dAddOp THEN V3dAddOp[op] ELSE op)

EncodeAddOp(op) == IF op \in DOMAIN V3dAddOp THEN Ok(V3dAddOp[op]) ELSE Fail

-----------------------------------------------------------------------------
(* Registers                                                               *)

\* Faulty variant: REG_B is not offset into the single register file.
ToWaddrNoOffset(reg) == IF reg.tag \in {"REG_A", "REG_B"} THEN Ok(reg.regId) ELSE Fail

\* to_waddr(): the single v3d register file holds REG_B at an offset of 32.
ToWaddr(reg) ==
    IF reg.tag \in {"REG_A", "REG_B"}
    THEN Ok((IF reg.tag = "REG_B" THEN REGB_OFFSET ELSE 0) + reg.regId)
    ELSE Fail

\* Instr::isUniformLoad() (Target/Instr.cpp), with its two asserts.
IsUniformLoad(i) ==
    CASE i.tag # "ALU" \/ i.srcA.tag # "REG" \/ i.srcB.tag # "REG" -> Ok(FALSE)
      [] i.srcA.reg = Uniform -> IF i.srcB.reg = Uniform THEN Ok(TRUE) ELSE Fail
      [] OTHER                -> IF i.srcB.reg = Uniform THEN Fail ELSE Ok(FALSE)

\* A register-file register with an id the encoders accept.
RFLoc(reg) == IF reg.regId \in 0..31 THEN Ok(RF(ToWaddr(reg).v)) ELSE Fail

\* encodeDestReg(): a SPECIAL destination asserts and then falls into the
\* NONE case, which yields no location.
EncodeDestReg(i) ==
    LET reg == i.dest
        ul  == IsUniformLoad(i)
    IN CASE ~ul.ok \/ ul.v                -> Fail
         [] reg.tag \in {"REG_A", "REG_B"} -> RFLoc(reg)
         [] reg.tag = "ACC"                -> IF reg.regId \in 0..5 THEN Ok(Acc(reg.regId)) ELSE Fail
         [] reg.tag = "SPECIAL"            -> Fail
         [] reg.tag = "NONE"               -> Ok(NoLoc)

\* setDestReg(): the location goes to the ALU that runs the op.
SetDestReg(i, ins) ==
    LET loc == EncodeDestReg(i) IN
    CASE ~loc.ok          -> Fail
      [] loc.v = NoLoc    -> Ok(ins)
      [] IsMulOp(i.op)    -> Ok([ins EXCEPT !.mulW = loc.v])
      [] OTHER            -> Ok([ins EXCEPT !.addW = loc.v])

\* encodeSrcReg(): no SPECIAL source has a case, and r5 is refused.
EncodeSrcReg(reg) ==
    CASE reg.tag \in {"REG_A", "REG_B"} -> RFLoc(reg)
      [] reg.tag = "ACC"                 -> IF reg.regId \in 0..4 THEN Ok(Acc(reg.regId)) ELSE Fail
      [] reg.tag = "NONE"                -> Ok(NoLoc)
      [] OTHER                           -> Fail

\* encodeSrcReg_old(): the vc4 read addresses.
SrcSpecialOld ==
    [UNIFORM |-> 32, ELEM_NUM |-> 38, QPU_NUM |-> 38, VPM_READ |-> 48,
     DMA_LD_WAIT |-> 50, DMA_ST_WAIT |-> 50]

EncodeSrcRegOld(reg) ==
    CASE reg.tag \in {"REG_A", "REG_B"} ->
           IF reg.regId \in 0..31 THEN ToWaddr(reg) ELSE Fail
      [] reg.tag = "NONE"    -> Ok(NOP_ADDR)
      [] reg.tag = "SPECIAL" ->
           IF reg.regId \in DOMAIN SrcSpecialOld THEN Ok(SrcSpecialOld[reg.regId]) ELSE Fail
      [] OTHER               -> Fail

-----------------------------------------------------------------------------
(* Instructions                                                            *)

\* translateOpcode(): a shift left by an immediate becomes shl(); handled
\* says whether the op had a translation.
TranslateOpcode(i, ins) ==
    LET d == EncodeDestReg(i)
        s == EncodeSrcReg(i.srcA.reg)
    IN IF i.op # "A_SHL" THEN [handled |-> FALSE, r |-> Ok(ins)]
       ELSE [handled |-> TRUE,
             r |-> IF d.ok /\ s.ok /\ d.v # NoLoc /\ s.v # NoLoc /\ i.srcB.tag = "IMM"
                   THEN Ok(Shl(d.v, s.v, i.srcB.val)) ELSE Fail]

\* The general ALU case: the op, then the operands.  Only a small
\* immediate second operand is encoded; the locals the code leaves
\* unassigned are the bytes g.
EncodeOperands(i, ins, g) ==
    LET isMul  == IsMulOp(i.op)
        op     == IF isMul THEN EncodeMulOp(i.op) ELSE EncodeAddOp(i.op)
        withOp == IF isMul THEN [ins EXCEPT !.mulOp = op.v] ELSE [ins EXCEPT !.addOp = op.v]
        finish(w, ra) ==
            Ok([w EXCEPT !.raddrA = ra, !.raddrB = Byte(g.raddrb),
                         !.addA = Byte(g.muxa), !.addB = Byte(g.muxb)])
        ra == EncodeSrcRegOld(i.srcA.reg)
    IN CASE ~op.ok -> Fail
         [] i.srcA.tag = "REG" /\ i.srcB.tag = "REG" -> finish(withOp, Byte(g.raddra))
         [] i.srcB.tag = "IMM" /\ i.srcA.tag = "REG" /\ ra.ok ->
              finish([withOp EXCEPT !.smallImm = TRUE, !.raddrB = SmallImm(i.srcB.val)],
                     Byte(ra.v))
         [] OTHER -> Fail

\* encodeInstr(): every kind but ALU asserts.  For an ALU: the destination
\* unless it is a uniform load, then shl, rotate (asserts), uniform load,
\* or the general case.
EncodeInstr(i, g) ==
    IF i.tag # "ALU" THEN Fail
    ELSE LET ul == IsUniformLoad(i)
             d  == IF ul.ok /\ ul.v THEN Ok(NopNop) ELSE SetDestReg(i, NopNop)
             t  == TranslateOpcode(i, d.v)
             rf == ToWaddr(i.dest)
         IN CASE ~ul.ok \/ ~d.ok       -> Fail
              [] t.handled             -> t.r
              [] i.op = "M_ROTATE"     -> Fail
              [] ul.v                  -> IF rf.ok THEN Ok(Ldunifrf(rf.v)) ELSE Fail
              [] OTHER                 -> EncodeOperands(i, d.v, g)

-----------------------------------------------------------------------------

Init == instr \in Inputs /\ status = "none" /\ out = NopNop

\* The body of _encode()'s loop for one instruction.
Encode ==
    /\ status = "none"
    /\ \E ra, rb, ma, mb \in Uninit :
         LET r == EncodeInstr(instr, [raddra |-> ra, raddrb |-> rb, muxa |-> ma, muxb |-> mb])
         IN /\ status' = IF r.ok THEN "ok" ELSE "error"
            /\ out' = IF r.ok THEN r.v ELSE NopNop
    /\ UNCHANGED instr

Next == Encode

Spec == Init /\ [][Next]_vars

-----------------------------------------------------------------------------
(* Properties                                                              *)

Locs ==
    {NoLoc} \cup {RF(n) : n \in 0..63} \cup {Acc(n) : n \in 0..5}
      \cup {Byte(n) : n \in 0..255} \cup {SmallImm(k) : k \in -16..15}

V3dInstrs ==
    [addOp : Range(V3dAddOp), mulOp : Range(V3dMulOp), addW : Locs, mulW : Locs,
     addA : Locs, addB : Locs, smallImm : BOOLEAN, raddrA : Locs, raddrB : Locs,
     ldunif : Locs]

\* Every field of an encoded instruction holds a v3d op or location.
TypeOK ==
    /\ status \in {"none", "ok", "error"}
    /\ out \in V3dInstrs

\* Where spec 4.5 puts a destination: REG_B at an offset of 32 in the one
\* register file.
DestLoc(reg) ==
    CASE reg.tag = "REG_A" -> RF(reg.regId)
      [] reg.tag = "REG_B" -> RF(REGB_OFFSET + reg.regId)
      [] reg.tag = "ACC"   -> Acc(reg.regId)
      [] OTHER             -> NoLoc

Writes(o) == {l \in {o.addW, o.mulW, o.ldunif} : l # NoLoc}

\* An accepted instruction writes its destination and nothing else, by the
\* ALU that runs its op (or by the uniform load): setDestReg, the shl
\* rewrite and the ldunifrf path must agree on it.
DestPreserved ==
    status = "ok" =>
        /\ Writes(out) = IF DestLoc(instr.dest) = NoLoc THEN {} ELSE {DestLoc(instr.dest)}
        /\ out.ldunif = NoLoc =>
             (IF IsMulOp(instr.op) THEN out.addW ELSE out.mulW) = NoLoc

\* Spec 4.5: a small immediate sets the small_imm signal and goes into
\* raddr_b.  The general case stores it and then overwrites raddr_b with
\* the unassigned local raddrb.
ImmediateEncoded ==
    status = "ok" /\ instr.srcB.tag = "IMM" =>
        out.smallImm /\ out.raddrB = SmallImm(instr.srcB.val)
=============================================================================
