---------------------------- MODULE MatmulProofs ----------------------------
(***************************************************************************)
(* Proofs about MatmulComposer: the numeric policy of the program          *)
(* matmul_str emits (np_matmul_str's casts around np.matmul, the bias      *)
(* add, the output conversion) holds for every node whose bias has the    *)
(* output's data type.                                                     *)
(***************************************************************************)
EXTENDS MatmulComposer, TLAPS

Fmts == FmtAttrVals \cup PriFmtVals \cup OutFmtVals \cup {"DefaultFormat"}

EnvNames == {"left", "right", "bias", "out"}

Floats == {"float16", "float32"}

(* The statements a generated program is made of. *)
Stmts ==
  [op : {"trans"}, v : EnvNames, f : Fmts] \cup [op : {"cast"}, v : EnvNames, d : Floats]
  \cup [op : {"matmul", "random", "add"}]

(* The parts of Program(n) and of MatmulStmts(n), in order: the           *)
(* conversions of FRACTAL_NZ operands to DefaultFormat, the float32 casts *)
(* of float16 operands, np.matmul, the downcast to a float16 output, the   *)
(* bias statements, the conversion of the result to the output format.    *)
TransL(n) ==
  IF LeftFmt(n) = "FRACTAL_NZ"
    THEN <<[op |-> "trans", v |-> "left", f |-> "DefaultFormat"]>> ELSE <<>>

TransR(n) ==
  IF RightFmt(n) = "FRACTAL_NZ"
    THEN <<[op |-> "trans", v |-> "right", f |-> "DefaultFormat"]>> ELSE <<>>

CastL(n) ==
  IF n.d0 = "float16" THEN <<[op |-> "cast", v |-> "left", d |-> "float32"]>> ELSE <<>>

CastR(n) ==
  IF n.d1 = "float16" THEN <<[op |-> "cast", v |-> "right", d |-> "float32"]>> ELSE <<>>

Downcast(n) ==
  IF n.dout = "float16" THEN <<[op |-> "cast", v |-> "out", d |-> "float16"]>> ELSE <<>>

BiasStmts(n) ==
  IF n.bias THEN (IF n.blen THEN <<>> ELSE <<[op |-> "random"]>>) \o <<[op |-> "add"]>>
  ELSE <<>>

TransOut(n) ==
  IF n.fout # "DefaultFormat"
    THEN <<[op |-> "trans", v |-> "out", f |-> n.fout]>> ELSE <<>>

(* Positions in Program(n): the statements run before the left operand is *)
(* float32, before the right one is, before np.matmul, before the result  *)
(* has the output's dtype, before the conversion of the result, in all.   *)
NTrans(n) == Len(TransL(n)) + Len(TransR(n))

LeftCast(n) == NTrans(n) + Len(CastL(n))

MatPos(n) == LeftCast(n) + Len(CastR(n))

OutCast(n) == MatPos(n) + 1 + Len(Downcast(n))

BiasEnd(n) == OutCast(n) + Len(BiasStmts(n))

PLen(n) == BiasEnd(n) + Len(TransOut(n))

(* Statement x (1-based) of Program(n), read off position by position. *)
StmtAt(n, x) ==
  CASE x \in 1 .. NTrans(n) ->
         [op |-> "trans", f |-> "DefaultFormat",
          v |-> IF x = 1 /\ LeftFmt(n) = "FRACTAL_NZ" THEN "left" ELSE "right"]
    [] x \in NTrans(n) + 1 .. LeftCast(n) -> [op |-> "cast", v |-> "left", d |-> "float32"]
    [] x \in LeftCast(n) + 1 .. MatPos(n) -> [op |-> "cast", v |-> "right", d |-> "float32"]
    [] x = MatPos(n) + 1 -> [op |-> "matmul"]
    [] x \in MatPos(n) + 2 .. OutCast(n) -> [op |-> "cast", v |-> "out", d |-> "float16"]
    [] x \in OutCast(n) + 1 .. BiasEnd(n) - 1 -> [op |-> "random"]
    [] x = BiasEnd(n) /\ BiasEnd(n) > OutCast(n) -> [op |-> "add"]
    [] OTHER -> [op |-> "trans", v |-> "out", f |-> n.fout]

(* Statement list s is the part of Program(n) after its first off        *)
(* statements.                                                             *)
Matches(n, s, off) == s \in Seq(Stmts) /\ \A x \in 1 .. Len(s) : s[x] = StmtAt(n, off + x)

(* The number of statements of the program already run. *)
Ran == PLen(node) - Len(prog)

(* The dtype and format of the locals once k statements have run: an     *)
(* operand is float32 from its cast on, the product is float32, the       *)
(* result has the output's dtype from the downcast on, and the result is  *)
(* in the output format only after the last statement.                     *)
EnvAfter(k) ==
  /\ env["left"].dtype = IF k >= LeftCast(node) THEN "float32" ELSE node.d0
  /\ env["right"].dtype = IF k >= MatPos(node) THEN "float32" ELSE node.d1
  /\ acc = IF k > MatPos(node) THEN "float32" ELSE "none"
  /\ k > MatPos(node) =>
       env["out"].dtype = IF k >= OutCast(node) THEN node.dout ELSE "float32"
  /\ env["out"].fmt = IF k = PLen(node) THEN node.fout ELSE "DefaultFormat"

(* The inductive invariant behind NumericPolicy: while the program runs,  *)
(* prog is the part of Program(node) not yet run, and the locals are as   *)
(* EnvAfter says for the statements run so far.                            *)
PInv ==
  /\ node \in Nodes
  /\ env \in [EnvNames -> [dtype : Floats, fmt : Fmts]]
  /\ env["bias"].dtype = node.dbias
  /\ pc \in {"gen", "run", "done", "error"}
  /\ pc = "gen" => EnvAfter(0) /\ env["left"].dtype = node.d0 /\ env["right"].dtype = node.d1
  /\ pc \in {"run", "done"} =>
       /\ prog \in Seq(Stmts)
       /\ Len(prog) <= PLen(node)
       /\ prog = SubSeq(Program(node), Ran + 1, PLen(node))
       /\ EnvAfter(Ran)
  /\ pc = "done" => prog = <<>>

-----------------------------------------------------------------------------

(* Concatenating two statement lists. *)
LEMMA CatStmts ==
  \A s1, s2 \in Seq(Stmts) :
    /\ s1 \o s2 \in Seq(Stmts)
    /\ Len(s1 \o s2) = Len(s1) + Len(s2)
    /\ \A x \in 1 .. Len(s1) + Len(s2) :
         (s1 \o s2)[x] = IF x <= Len(s1) THEN s1[x] ELSE s2[x - Len(s1)]
OBVIOUS

(* Two consecutive parts of a program make one part. *)
LEMMA CatMatches ==
  \A n : \A off \in Nat : \A s, t :
    Matches(n, s, off) /\ Matches(n, t, off + Len(s)) =>
      Matches(n, s \o t, off) /\ Len(s \o t) = Len(s) + Len(t)
<1> SUFFICES ASSUME NEW n, NEW off \in Nat, NEW s, NEW t,
                    Matches(n, s, off), Matches(n, t, off + Len(s))
             PROVE  Matches(n, s \o t, off) /\ Len(s \o t) = Len(s) + Len(t)
  OBVIOUS
<1>1. s \in Seq(Stmts) /\ t \in Seq(Stmts)
  BY DEF Matches
<1>2. /\ s \o t \in Seq(Stmts)
      /\ Len(s \o t) = Len(s) + Len(t)
      /\ \A x \in 1 .. Len(s) + Len(t) :
           (s \o t)[x] = IF x <= Len(s) THEN s[x] ELSE t[x - Len(s)]
  BY <1>1, CatStmts
<1> QED BY <1>1, <1>2 DEF Matches

(* The lengths of the parts. *)
LEMMA PartLens ==
  ASSUME NEW n \in Nodes
  PROVE  /\ Len(TransL(n)) \in {0, 1} /\ Len(TransR(n)) \in {0, 1}
         /\ Len(CastL(n)) \in {0, 1} /\ Len(CastR(n)) \in {0, 1}
         /\ Len(Downcast(n)) \in {0, 1} /\ Len(BiasStmts(n)) \in {0, 1, 2}
         /\ Len(TransOut(n)) \in {0, 1}
BY DEF Nodes, TransL, TransR, CastL, CastR, Downcast, BiasStmts, TransOut

(* Each part sits at its position in Program(n). *)
LEMMA PartsAt ==
  ASSUME NEW n \in Nodes
  PROVE  /\ Matches(n, TransL(n), 0)
         /\ Matches(n, TransR(n), Len(TransL(n)))
         /\ Matches(n, CastL(n), NTrans(n))
         /\ Matches(n, CastR(n), LeftCast(n))
         /\ Matches(n, <<[op |-> "matmul"]>>, MatPos(n))
         /\ Matches(n, Downcast(n), MatPos(n) + 1)
         /\ Matches(n, BiasStmts(n), OutCast(n))
         /\ Matches(n, TransOut(n), BiasEnd(n))
<1>1. /\ Len(TransL(n)) \in {0, 1} /\ Len(TransR(n)) \in {0, 1}
      /\ Len(CastL(n)) \in {0, 1} /\ Len(CastR(n)) \in {0, 1}
      /\ Len(Downcast(n)) \in {0, 1} /\ Len(BiasStmts(n)) \in {0, 1, 2}
      /\ Len(TransOut(n)) \in {0, 1}
  BY PartLens
<1> USE <1>1 DEF NTrans, LeftCast, MatPos, OutCast, BiasEnd
<1>2. Matches(n, TransL(n), 0)
  <2>1. CASE LeftFmt(n) = "FRACTAL_NZ"
    <3>1. TransL(n) = <<[op |-> "trans", v |-> "left", f |-> "DefaultFormat"]>>
      BY <2>1 DEF TransL
    <3> QED BY <2>1, <3>1 DEF Matches, StmtAt, Stmts, EnvNames, Fmts
  <2>2. CASE ~(LeftFmt(n) = "FRACTAL_NZ")
    <3>1. TransL(n) = <<>>
      BY <2>2 DEF TransL
    <3> QED BY <3>1 DEF Matches
  <2> QED BY <2>1, <2>2
<1>3. Matches(n, TransR(n), Len(TransL(n)))
  <2>1. CASE RightFmt(n) = "FRACTAL_NZ"
    <3>1. TransR(n) = <<[op |-> "trans", v |-> "right", f |-> "DefaultFormat"]>>
      BY <2>1 DEF TransR
    <3>2. Len(TransL(n)) = IF LeftFmt(n) = "FRACTAL_NZ" THEN 1 ELSE 0
      BY DEF TransL
    <3> QED BY <2>1, <3>1, <3>2 DEF Matches, StmtAt, Stmts, EnvNames, Fmts
  <2>2. CASE ~(RightFmt(n) = "FRACTAL_NZ")
    <3>1. TransR(n) = <<>>
      BY <2>2 DEF TransR
    <3> QED BY <3>1 DEF Matches
  <2> QED BY <2>1, <2>2
<1>4. Matches(n, CastL(n), NTrans(n))
  <2>1. CASE n.d0 = "float16"
    <3>1. CastL(n) = <<[op |-> "cast", v |-> "left", d |-> "float32"]>>
      BY <2>1 DEF CastL
    <3> QED BY <2>1, <3>1 DEF Matches, StmtAt, Stmts, EnvNames, Floats
  <2>2. CASE ~(n.d0 = "float16")
    <3>1. CastL(n) = <<>>
      BY <2>2 DEF CastL
    <3> QED BY <3>1 DEF Matches
  <2> QED BY <2>1, <2>2
<1>5. Matches(n, CastR(n), LeftCast(n))
  <2>1. CASE n.d1 = "float16"
    <3>1. CastR(n) = <<[op |-> "cast", v |-> "right", d |-> "float32"]>>
      BY <2>1 DEF CastR
    <3> QED BY <2>1, <3>1 DEF Matches, StmtAt, Stmts, EnvNames, Floats
  <2>2. CASE ~(n.d1 = "float16")
    <3>1. CastR(n) = <<>>
      BY <2>2 DEF CastR
    <3> QED BY <3>1 DEF Matches
  <2> QED BY <2>1, <2>2
<1>6. Matches(n, <<[op |-> "matmul"]>>, MatPos(n))
  BY DEF Matches, StmtAt, Stmts
<1>7. Matches(n, Downcast(n), MatPos(n) + 1)
  <2>1. CASE n.dout = "float16"
    <3>1. Downcast(n) = <<[op |-> "cast", v |-> "out", d |-> "float16"]>>
      BY <2>1 DEF Downcast
    <3> QED BY <2>1, <3>1 DEF Matches, StmtAt, Stmts, EnvNames, Floats
  <2>2. CASE ~(n.dout = "float16")
    <3>1. Downcast(n) = <<>>
      BY <2>2 DEF Downcast
    <3> QED BY <3>1 DEF Matches
  <2> QED BY <2>1, <2>2
<1>8. Matches(n, BiasStmts(n), OutCast(n))
  <2>1. CASE n.bias /\ n.blen
    <3>1. BiasStmts(n) = <<[op |-> "add"]>>
      BY <2>1 DEF BiasStmts
    <3> QED BY <3>1 DEF Matches, StmtAt, Stmts
  <2>2. CASE n.bias /\ ~n.blen
    <3>1. BiasStmts(n) = <<[op |-> "random"]>> \o <<[op |-> "add"]>>
      BY <2>2 DEF BiasStmts
    <3>2. Len(BiasStmts(n)) = 2
      BY <3>1
    <3>3. Matches(n, <<[op |-> "random"]>>, OutCast(n))
      BY <3>2 DEF Matches, StmtAt, Stmts
    <3>4. Matches(n, <<[op |-> "add"]>>, OutCast(n) + Len(<<[op |-> "random"]>>))
      BY <3>2 DEF Matches, StmtAt, Stmts
    <3>5. OutCast(n) \in Nat
      OBVIOUS
    <3>6. Matches(n, <<[op |-> "random"]>> \o <<[op |-> "add"]>>, OutCast(n))
      BY <3>3, <3>4, <3>5, CatMatches, Zenon
    <3> QED BY <3>1, <3>6
  <2>3. CASE ~n.bias
    BY <2>3 DEF Matches, BiasStmts
  <2> QED BY <2>1, <2>2, <2>3
<1>9. Matches(n, TransOut(n), BiasEnd(n))
  <2>1. CASE n.fout # "DefaultFormat"
    <3>1. TransOut(n) = <<[op |-> "trans", v |-> "out", f |-> n.fout]>>
      BY <2>1 DEF TransOut
    <3> QED BY <2>1, <3>1 DEF Matches, StmtAt, Stmts, EnvNames, Fmts, Nodes
  <2>2. CASE ~(n.fout # "DefaultFormat")
    <3>1. TransOut(n) = <<>>
      BY <2>2 DEF TransOut
    <3> QED BY <3>1 DEF Matches
  <2> QED BY <2>1, <2>2
<1> QED BY <1>2, <1>3, <1>4, <1>5, <1>6, <1>7, <1>8, <1>9

(* Program(n) is the statement list StmtAt describes, of length PLen(n). *)
LEMMA ProgramAt ==
  ASSUME NEW n \in Nodes
  PROVE  Matches(n, Program(n), 0) /\ Len(Program(n)) = PLen(n)
<1> DEFINE MM == <<[op |-> "matmul"]>>
           S1 == CastL(n) \o CastR(n)
           S2 == S1 \o MM
           S3 == S2 \o Downcast(n)
           P1 == TransL(n) \o TransR(n)
           P2 == P1 \o S3
           P3 == P2 \o BiasStmts(n)
           P4 == P3 \o TransOut(n)
<1>1. Program(n) = P4
  BY DEF Program, MatmulStmts, TransL, TransR, CastL, CastR, Downcast, BiasStmts, TransOut
<1>2. /\ Len(TransL(n)) \in {0, 1} /\ Len(TransR(n)) \in {0, 1}
      /\ Len(CastL(n)) \in {0, 1} /\ Len(CastR(n)) \in {0, 1}
      /\ Len(Downcast(n)) \in {0, 1} /\ Len(BiasStmts(n)) \in {0, 1, 2}
      /\ Len(TransOut(n)) \in {0, 1}
  BY PartLens
<1>3. /\ Matches(n, TransL(n), 0)
      /\ Matches(n, TransR(n), Len(TransL(n)))
      /\ Matches(n, CastL(n), NTrans(n))
      /\ Matches(n, CastR(n), LeftCast(n))
      /\ Matches(n, MM, MatPos(n))
      /\ Matches(n, Downcast(n), MatPos(n) + 1)
      /\ Matches(n, BiasStmts(n), OutCast(n))
      /\ Matches(n, TransOut(n), BiasEnd(n))
  BY PartsAt
<1>4. Matches(n, S1, NTrans(n)) /\ Len(S1) = Len(CastL(n)) + Len(CastR(n))
  <2>1. NTrans(n) \in Nat
    BY <1>2 DEF NTrans
  <2>2. \A s, t : Matches(n, s, NTrans(n)) /\ Matches(n, t, NTrans(n) + Len(s)) =>
                   Matches(n, s \o t, NTrans(n)) /\ Len(s \o t) = Len(s) + Len(t)
    BY <2>1, CatMatches
  <2>3. Matches(n, CastL(n), NTrans(n)) /\ Matches(n, CastR(n), NTrans(n) + Len(CastL(n)))
    BY <1>3 DEF LeftCast
  <2> QED BY <2>2, <2>3
<1>5. Matches(n, S1 \o MM, NTrans(n)) /\ Len(S2) = Len(CastL(n)) + Len(CastR(n)) + 1
  <2>1. NTrans(n) \in Nat
    BY <1>2 DEF NTrans
  <2>2. \A s, t : Matches(n, s, NTrans(n)) /\ Matches(n, t, NTrans(n) + Len(s)) =>
                   Matches(n, s \o t, NTrans(n)) /\ Len(s \o t) = Len(s) + Len(t)
    BY <2>1, CatMatches
  <2>3. Matches(n, S1, NTrans(n)) /\ Matches(n, MM, NTrans(n) + Len(S1))
    BY <1>2, <1>3, <1>4 DEF NTrans, LeftCast, MatPos
  <2>4. Matches(n, S1 \o MM, NTrans(n)) /\ Len(S1 \o MM) = Len(S1) + Len(MM)
    BY <2>2, <2>3, Zenon
  <2> QED BY <2>4, <1>4
<1>6. Matches(n, S2 \o Downcast(n), NTrans(n)) /\ Len(S3) = OutCast(n) - NTrans(n)
  <2>1. NTrans(n) \in Nat
    BY <1>2 DEF NTrans
  <2>2. \A s, t : Matches(n, s, NTrans(n)) /\ Matches(n, t, NTrans(n) + Len(s)) =>
                   Matches(n, s \o t, NTrans(n)) /\ Len(s \o t) = Len(s) + Len(t)
    BY <2>1, CatMatches
  <2>3. Matches(n, S2, NTrans(n)) /\ Matches(n, Downcast(n), NTrans(n) + Len(S2))
    BY <1>2, <1>3, <1>5 DEF NTrans, LeftCast, MatPos
  <2>4. Matches(n, S2 \o Downcast(n), NTrans(n)) /\ Len(S2 \o Downcast(n)) = Len(S2) + Len(Downcast(n))
    BY <2>2, <2>3, Zenon
  <2> QED BY <2>4, <1>2, <1>5 DEF NTrans, LeftCast, MatPos, OutCast
<1>7. Matches(n, TransL(n) \o TransR(n), 0) /\ Len(P1) = NTrans(n)
  <2>1. 0 \in Nat
    OBVIOUS
  <2>2. \A s, t : Matches(n, s, 0) /\ Matches(n, t, 0 + Len(s)) =>
                   Matches(n, s \o t, 0) /\ Len(s \o t) = Len(s) + Len(t)
    BY <2>1, CatMatches
  <2>3. Matches(n, TransL(n), 0) /\ Matches(n, TransR(n), 0 + Len(TransL(n)))
    BY <1>3
  <2>4. Matches(n, TransL(n) \o TransR(n), 0) /\ Len(TransL(n) \o TransR(n)) = Len(TransL(n)) + Len(TransR(n))
    BY <2>2, <2>3, Zenon
  <2> QED BY <2>4, <1>2 DEF NTrans
<1>8. Matches(n, P1 \o S3, 0) /\ Len(P2) = OutCast(n)
  <2>1. 0 \in Nat
    OBVIOUS
  <2>2. \A s, t : Matches(n, s, 0) /\ Matches(n, t, 0 + Len(s)) =>
                   Matches(n, s \o t, 0) /\ Len(s \o t) = Len(s) + Len(t)
    BY <2>1, CatMatches
  <2>3. Matches(n, P1, 0) /\ Matches(n, S3, 0 + Len(P1))
    BY <1>2, <1>6, <1>7
  <2>4. Matches(n, P1 \o S3, 0) /\ Len(P1 \o S3) = Len(P1) + Len(S3)
    BY <2>2, <2>3, Zenon
  <2> QED BY <2>4, <1>2, <1>6, <1>7 DEF NTrans, LeftCast, MatPos, OutCast
<1>9. Matches(n, P2 \o BiasStmts(n), 0) /\ Len(P3) = BiasEnd(n)
  <2>1. 0 \in Nat
    OBVIOUS
  <2>2. \A s, t : Matches(n, s, 0) /\ Matches(n, t, 0 + Len(s)) =>
                   Matches(n, s \o t, 0) /\ Len(s \o t) = Len(s) + Len(t)
    BY <2>1, CatMatches
  <2>3. Matches(n, P2, 0) /\ Matches(n, BiasStmts(n), 0 + Len(P2))
    BY <1>2, <1>3, <1>8
  <2>4. Matches(n, P2 \o BiasStmts(n), 0) /\ Len(P2 \o BiasStmts(n)) = Len(P2) + Len(BiasStmts(n))
    BY <2>2, <2>3, Zenon
  <2> QED BY <2>4, <1>2, <1>8 DEF BiasEnd
<1>10. Matches(n, P3 \o TransOut(n), 0) /\ Len(P4) = PLen(n)
  <2>1. 0 \in Nat
    OBVIOUS
  <2>2. \A s, t : Matches(n, s, 0) /\ Matches(n, t, 0 + Len(s)) =>
                   Matches(n, s \o t, 0) /\ Len(s \o t) = Len(s) + Len(t)
    BY <2>1, CatMatches
  <2>3. Matches(n, P3, 0) /\ Matches(n, TransOut(n), 0 + Len(P3))
    BY <1>2, <1>3, <1>9
  <2>4. Matches(n, P3 \o TransOut(n), 0) /\ Len(P3 \o TransOut(n)) = Len(P3) + Len(TransOut(n))
    BY <2>2, <2>3, Zenon
  <2> QED BY <2>4, <1>2, <1>9 DEF PLen
<1> QED BY <1>1, <1>10

(* What a node of Nodes fixes about the program: its dtypes and formats  *)
(* have their types, and each optional part is there exactly when the     *)
(* node calls for it.                                                      *)
NodeOK(n) ==
  /\ n.d0 \in Floats /\ n.d1 \in Floats /\ n.dout \in Floats /\ n.dbias \in Floats
  /\ n.fout \in Fmts /\ LeftFmt(n) \in Fmts /\ RightFmt(n) \in Fmts
  /\ NTrans(n) \in Int /\ 0 <= NTrans(n) /\ NTrans(n) <= 2
  /\ Len(CastL(n)) = IF n.d0 = "float16" THEN 1 ELSE 0
  /\ Len(CastR(n)) = IF n.d1 = "float16" THEN 1 ELSE 0
  /\ Len(Downcast(n)) = IF n.dout = "float16" THEN 1 ELSE 0
  /\ Len(BiasStmts(n)) \in Int /\ 0 <= Len(BiasStmts(n)) /\ Len(BiasStmts(n)) <= 2
  /\ Len(TransOut(n)) = IF n.fout # "DefaultFormat" THEN 1 ELSE 0

(* Every node of the model satisfies NodeOK. *)
LEMMA NodeFacts == \A n \in Nodes : NodeOK(n)
<1> SUFFICES ASSUME NEW n \in Nodes PROVE NodeOK(n)
  OBVIOUS
<1>1. /\ n.d0 \in Floats /\ n.d1 \in Floats /\ n.dout \in Floats /\ n.dbias \in Floats
      /\ n.fout \in Fmts /\ LeftFmt(n) \in Fmts /\ RightFmt(n) \in Fmts
  <2>1. /\ n \in [lf : FmtAttrVals, rf : FmtAttrVals, pri : PriFmtVals,
                 ta : BOOLEAN, tb : BOOLEAN, d0 : DTypes, d1 : DTypes,
                 dout : DTypes, fout : OutFmtVals, bias : BiasVals, dbias : DTypes,
                 blen : BOOLEAN]
        /\ BiasSameType => n.dbias = n.dout
    BY DEF Nodes
  <2>2. n.d0 \in DTypes /\ n.d1 \in DTypes /\ n.dout \in DTypes /\ n.dbias \in DTypes
    BY <2>1
  <2>3. LeftFmt(n) \in Fmts /\ RightFmt(n) \in Fmts /\ n.fout \in Fmts
    BY <2>1 DEF LeftFmt, RightFmt, Fmts
  <2>4. n.d0 \in Floats /\ n.d1 \in Floats /\ n.dout \in Floats /\ n.dbias \in Floats
    BY <2>2, ConstAssumption, Zenon DEF Floats
  <2> QED BY <2>3, <2>4
<1>2. NTrans(n) \in Int /\ 0 <= NTrans(n) /\ NTrans(n) <= 2
  BY DEF NTrans, TransL, TransR
<1>3. /\ Len(CastL(n)) = IF n.d0 = "float16" THEN 1 ELSE 0
      /\ Len(CastR(n)) = IF n.d1 = "float16" THEN 1 ELSE 0
      /\ Len(Downcast(n)) = IF n.dout = "float16" THEN 1 ELSE 0
      /\ Len(TransOut(n)) = IF n.fout # "DefaultFormat" THEN 1 ELSE 0
  BY DEF CastL, CastR, Downcast, TransOut
<1>4. Len(BiasStmts(n)) \in Int /\ 0 <= Len(BiasStmts(n)) /\ Len(BiasStmts(n)) <= 2
  BY DEF BiasStmts
<1> QED BY <1>1, <1>2, <1>3, <1>4 DEF NodeOK

(* A bias of the output's dtype, when the nodes are restricted to those. *)
LEMMA BiasDType ==
  ASSUME NEW n \in Nodes, BiasSameType
  PROVE  n.dbias = n.dout
BY Zenon DEF Nodes

(* The head and the tail of a suffix of a statement list. *)
LEMMA SuffixHeadTail ==
  \A P \in Seq(Stmts) : \A m \in 1 .. Len(P) :
    /\ Head(SubSeq(P, m, Len(P))) = P[m]
    /\ Tail(SubSeq(P, m, Len(P))) = SubSeq(P, m + 1, Len(P))
    /\ Len(SubSeq(P, m, Len(P))) = Len(P) - m + 1
<1> SUFFICES ASSUME NEW P \in Seq(Stmts), NEW m \in 1 .. Len(P)
             PROVE  /\ Head(SubSeq(P, m, Len(P))) = P[m]
                    /\ Tail(SubSeq(P, m, Len(P))) = SubSeq(P, m + 1, Len(P))
                    /\ Len(SubSeq(P, m, Len(P))) = Len(P) - m + 1
  OBVIOUS
<1> QED OBVIOUS

(* The positions of the program's parts, as numbers. *)
LEMMA PosOrder ==
  ASSUME NEW n \in Nodes
  PROVE  /\ NTrans(n) \in Int /\ 0 <= NTrans(n) /\ NTrans(n) <= 2
         /\ LeftCast(n) = NTrans(n) + (IF n.d0 = "float16" THEN 1 ELSE 0)
         /\ MatPos(n) = LeftCast(n) + (IF n.d1 = "float16" THEN 1 ELSE 0)
         /\ OutCast(n) = MatPos(n) + 1 + (IF n.dout = "float16" THEN 1 ELSE 0)
         /\ BiasEnd(n) \in Int /\ OutCast(n) <= BiasEnd(n) /\ BiasEnd(n) <= OutCast(n) + 2
         /\ PLen(n) = BiasEnd(n) + (IF n.fout # "DefaultFormat" THEN 1 ELSE 0)
<1>1. NodeOK(n)
  BY NodeFacts
<1>2. /\ NTrans(n) \in Int /\ 0 <= NTrans(n) /\ NTrans(n) <= 2
      /\ Len(CastL(n)) = IF n.d0 = "float16" THEN 1 ELSE 0
      /\ Len(CastR(n)) = IF n.d1 = "float16" THEN 1 ELSE 0
      /\ Len(Downcast(n)) = IF n.dout = "float16" THEN 1 ELSE 0
      /\ Len(BiasStmts(n)) \in Int /\ 0 <= Len(BiasStmts(n)) /\ Len(BiasStmts(n)) <= 2
      /\ Len(TransOut(n)) = IF n.fout # "DefaultFormat" THEN 1 ELSE 0
  BY <1>1 DEF NodeOK
<1>3. LeftCast(n) = NTrans(n) + (IF n.d0 = "float16" THEN 1 ELSE 0)
  BY <1>2 DEF LeftCast
<1>4. MatPos(n) = LeftCast(n) + (IF n.d1 = "float16" THEN 1 ELSE 0)
  BY <1>2 DEF MatPos
<1>5. OutCast(n) = MatPos(n) + 1 + (IF n.dout = "float16" THEN 1 ELSE 0)
  BY <1>2 DEF OutCast
<1>6. BiasEnd(n) \in Int /\ OutCast(n) <= BiasEnd(n) /\ BiasEnd(n) <= OutCast(n) + 2
  <2>1. OutCast(n) \in Int
    BY <1>2 DEF OutCast, MatPos, LeftCast
  <2>2. Len(BiasStmts(n)) \in Int /\ 0 <= Len(BiasStmts(n)) /\ Len(BiasStmts(n)) <= 2
    BY <1>2
  <2> QED BY <2>1, <2>2 DEF BiasEnd
<1>7. PLen(n) = BiasEnd(n) + (IF n.fout # "DefaultFormat" THEN 1 ELSE 0)
  BY <1>2 DEF PLen
<1> QED BY <1>2, <1>3, <1>4, <1>5, <1>6, <1>7

(* Initially the invariant holds. *)
LEMMA InitPInv == Init => PInv
<1> SUFFICES ASSUME Init PROVE PInv
  OBVIOUS
<1>1. node \in Nodes /\ prog = <<>> /\ acc = "none" /\ pc = "gen"
  BY DEF Init
<1>2. NodeOK(node)
  BY <1>1, NodeFacts
<1>3. /\ env["left"] = [dtype |-> node.d0, fmt |-> LeftFmt(node)]
      /\ env["right"] = [dtype |-> node.d1, fmt |-> RightFmt(node)]
      /\ env["bias"] = [dtype |-> node.dbias, fmt |-> "DefaultFormat"]
      /\ env["out"] = [dtype |-> node.dbias, fmt |-> "DefaultFormat"]
      /\ DOMAIN env = EnvNames
  BY DEF Init, EnvNames
<1>4. env \in [EnvNames -> [dtype : Floats, fmt : Fmts]]
  <2>1. env = [v \in EnvNames |-> env[v]]
    BY DEF Init, EnvNames
  <2>2. "DefaultFormat" \in Fmts
    BY DEF Fmts
  <2>3. \A v \in EnvNames : env[v] \in [dtype : Floats, fmt : Fmts]
    BY <1>2, <1>3, <2>2 DEF NodeOK, EnvNames
  <2> QED BY <2>1, <2>3, Zenon
<1>5. EnvAfter(0)
  <2>1. /\ NTrans(node) \in Int /\ 0 <= NTrans(node) /\ NTrans(node) <= 2
        /\ LeftCast(node) = NTrans(node) + (IF node.d0 = "float16" THEN 1 ELSE 0)
        /\ MatPos(node) = LeftCast(node) + (IF node.d1 = "float16" THEN 1 ELSE 0)
        /\ OutCast(node) = MatPos(node) + 1 + (IF node.dout = "float16" THEN 1 ELSE 0)
        /\ BiasEnd(node) \in Int /\ OutCast(node) <= BiasEnd(node) /\ BiasEnd(node) <= OutCast(node) + 2
        /\ PLen(node) = BiasEnd(node) + (IF node.fout # "DefaultFormat" THEN 1 ELSE 0)
    BY <1>1, PosOrder
  <2>2. node.d0 \in Floats /\ node.d1 \in Floats
    BY <1>2 DEF NodeOK
  <2>3. env["left"].dtype = IF 0 >= LeftCast(node) THEN "float32" ELSE node.d0
    BY <1>3, <2>1, <2>2 DEF Floats
  <2>4. env["right"].dtype = IF 0 >= MatPos(node) THEN "float32" ELSE node.d1
    BY <1>3, <2>1, <2>2 DEF Floats
  <2>5. /\ acc = IF 0 > MatPos(node) THEN "float32" ELSE "none"
        /\ env["out"].fmt = IF 0 = PLen(node) THEN node.fout ELSE "DefaultFormat"
    BY <1>1, <1>3, <2>1
  <2> QED BY <2>1, <2>3, <2>4, <2>5 DEF EnvAfter
<1> QED BY <1>1, <1>2, <1>3, <1>4, <1>5 DEF PInv

(* Generation either raises, leaving the locals alone, or installs the   *)
(* whole program with nothing of it run yet.                              *)
LEMMA GeneratePInv == PInv /\ Generate => PInv'
<1> SUFFICES ASSUME PInv, Generate PROVE PInv'
  OBVIOUS
<1>1. /\ node' = node /\ env' = env /\ acc' = acc /\ pc = "gen"
      /\ \/ pc' = "error" /\ prog' = prog
         \/ pc' = "run" /\ prog' = Program(node)
  BY DEF Generate
<1>2. /\ node \in Nodes /\ env \in [EnvNames -> [dtype : Floats, fmt : Fmts]]
      /\ env["bias"].dtype = node.dbias /\ EnvAfter(0)
  BY <1>1 DEF PInv
<1>3. CASE pc' = "error" /\ prog' = prog
  BY <1>1, <1>2, <1>3 DEF PInv
<1>4. CASE pc' = "run" /\ prog' = Program(node)
  <2>1. Matches(node, Program(node), 0) /\ Len(Program(node)) = PLen(node)
    BY <1>2, ProgramAt
  <2>2. /\ prog' \in Seq(Stmts)
        /\ Len(prog') = PLen(node')
        /\ prog' = SubSeq(Program(node'), 1, PLen(node'))
    BY <1>1, <1>4, <2>1 DEF Matches
  <2>3. Ran' = 0
    BY <1>1, <2>2 DEF Ran
  <2>4. EnvAfter(Ran)'
    BY <1>1, <1>2, <2>3 DEF EnvAfter
  <2> QED BY <1>1, <1>2, <1>4, <2>2, <2>3, <2>4 DEF PInv
<1> QED BY <1>1, <1>3, <1>4

(* A format conversion changes the format of one local and nothing else. *)
LEMMA FmtUpdate ==
  \A e \in [EnvNames -> [dtype : Floats, fmt : Fmts]] : \A v \in EnvNames : \A f \in Fmts :
    /\ [e EXCEPT ![v].fmt = f] \in [EnvNames -> [dtype : Floats, fmt : Fmts]]
    /\ \A w \in EnvNames :
         /\ [e EXCEPT ![v].fmt = f][w].dtype = e[w].dtype
         /\ [e EXCEPT ![v].fmt = f][w].fmt = IF w = v THEN f ELSE e[w].fmt
OBVIOUS

(* A cast changes the dtype of one local and nothing else. *)
LEMMA DTypeUpdate ==
  \A e \in [EnvNames -> [dtype : Floats, fmt : Fmts]] : \A v \in EnvNames : \A d \in Floats :
    /\ [e EXCEPT ![v].dtype = d] \in [EnvNames -> [dtype : Floats, fmt : Fmts]]
    /\ \A w \in EnvNames :
         /\ [e EXCEPT ![v].dtype = d][w].dtype = IF w = v THEN d ELSE e[w].dtype
         /\ [e EXCEPT ![v].dtype = d][w].fmt = e[w].fmt
OBVIOUS

(* np.matmul replaces the result local as a whole. *)
LEMMA OutUpdate ==
  \A e \in [EnvNames -> [dtype : Floats, fmt : Fmts]] : \A d \in Floats : \A f \in Fmts :
    /\ [e EXCEPT !["out"] = [dtype |-> d, fmt |-> f]]
         \in [EnvNames -> [dtype : Floats, fmt : Fmts]]
    /\ \A w \in EnvNames :
         [e EXCEPT !["out"] = [dtype |-> d, fmt |-> f]][w] =
           IF w = "out" THEN [dtype |-> d, fmt |-> f] ELSE e[w]
BY DEF EnvNames

(* The statement at each position of the program. *)
LEMMA StmtAtCases ==
  ASSUME NEW n \in Nodes, NEW x \in Int
  PROVE  /\ 1 <= x /\ x <= NTrans(n) =>
              StmtAt(n, x) = [op |-> "trans", f |-> "DefaultFormat",
                              v |-> IF x = 1 /\ LeftFmt(n) = "FRACTAL_NZ" THEN "left" ELSE "right"]
         /\ NTrans(n) < x /\ x <= LeftCast(n) =>
              StmtAt(n, x) = [op |-> "cast", v |-> "left", d |-> "float32"]
         /\ LeftCast(n) < x /\ x <= MatPos(n) =>
              StmtAt(n, x) = [op |-> "cast", v |-> "right", d |-> "float32"]
         /\ x = MatPos(n) + 1 => StmtAt(n, x) = [op |-> "matmul"]
         /\ MatPos(n) + 1 < x /\ x <= OutCast(n) =>
              StmtAt(n, x) = [op |-> "cast", v |-> "out", d |-> "float16"]
         /\ OutCast(n) < x /\ x < BiasEnd(n) => StmtAt(n, x) = [op |-> "random"]
         /\ x = BiasEnd(n) /\ OutCast(n) < x => StmtAt(n, x) = [op |-> "add"]
         /\ BiasEnd(n) < x => StmtAt(n, x) = [op |-> "trans", v |-> "out", f |-> n.fout]
<1>1. /\ NTrans(n) \in Int /\ 0 <= NTrans(n) /\ NTrans(n) <= 2
      /\ LeftCast(n) = NTrans(n) + (IF n.d0 = "float16" THEN 1 ELSE 0)
      /\ MatPos(n) = LeftCast(n) + (IF n.d1 = "float16" THEN 1 ELSE 0)
      /\ OutCast(n) = MatPos(n) + 1 + (IF n.dout = "float16" THEN 1 ELSE 0)
      /\ BiasEnd(n) \in Int /\ OutCast(n) <= BiasEnd(n) /\ BiasEnd(n) <= OutCast(n) + 2
  BY PosOrder
<1> QED BY <1>1 DEF StmtAt

(* One statement of matmul_func moves the program and the locals on by   *)
(* one position. The bias is added without changing the result's dtype   *)
(* only when the bias has the output's dtype.                              *)
LEMMA RunStmtPInv == PInv /\ RunStmt /\ node.dbias = node.dout => PInv'
<1> SUFFICES ASSUME PInv, RunStmt, node.dbias = node.dout PROVE PInv'
  OBVIOUS
<1> DEFINE P == Program(node)
           k == Ran + 1
           s == Head(prog)
<1>1. /\ node' = node /\ pc' = pc /\ pc = "run" /\ prog # <<>> /\ prog' = Tail(prog)
  BY DEF RunStmt
<1>2. /\ node \in Nodes
      /\ env \in [EnvNames -> [dtype : Floats, fmt : Fmts]]
      /\ env["bias"].dtype = node.dbias
      /\ prog \in Seq(Stmts)
      /\ Len(prog) <= PLen(node)
      /\ prog = SubSeq(P, Ran + 1, PLen(node))
      /\ EnvAfter(Ran)
  BY <1>1 DEF PInv
<1>3. NodeOK(node) /\ node.dbias = node.dout
  BY <1>2, NodeFacts
<1>4. /\ NTrans(node) \in Int /\ 0 <= NTrans(node) /\ NTrans(node) <= 2
      /\ LeftCast(node) = NTrans(node) + (IF node.d0 = "float16" THEN 1 ELSE 0)
      /\ MatPos(node) = LeftCast(node) + (IF node.d1 = "float16" THEN 1 ELSE 0)
      /\ OutCast(node) = MatPos(node) + 1 + (IF node.dout = "float16" THEN 1 ELSE 0)
      /\ BiasEnd(node) \in Int /\ OutCast(node) <= BiasEnd(node)
      /\ BiasEnd(node) <= OutCast(node) + 2
      /\ PLen(node) = BiasEnd(node) + (IF node.fout # "DefaultFormat" THEN 1 ELSE 0)
  BY <1>2, PosOrder
<1>5. Matches(node, P, 0) /\ Len(P) = PLen(node)
  BY <1>2, ProgramAt
<1>6. P \in Seq(Stmts)
  BY <1>5 DEF Matches
<1>7. Ran \in Int /\ k \in 1 .. PLen(node) /\ Ran = k - 1
      /\ k \in Int /\ 1 <= k /\ k <= PLen(node) /\ PLen(node) \in Int
  <2>1. PLen(node) \in Int
    BY <1>4
  <2>2. Len(prog) \in Int /\ 1 <= Len(prog) /\ Len(prog) <= PLen(node)
    BY <1>1, <1>2
  <2> QED BY <2>1, <2>2 DEF Ran
<1>8. /\ s = StmtAt(node, k)
      /\ prog' = SubSeq(P, k + 1, PLen(node))
      /\ Len(prog') = PLen(node) - k
  <2>1. \A m \in 1 .. Len(P) :
          /\ Head(SubSeq(P, m, Len(P))) = P[m]
          /\ Tail(SubSeq(P, m, Len(P))) = SubSeq(P, m + 1, Len(P))
          /\ Len(SubSeq(P, m, Len(P))) = Len(P) - m + 1
    BY <1>6, SuffixHeadTail, Zenon
  <2>2. k \in 1 .. Len(P) /\ prog = SubSeq(P, k, Len(P))
    BY <1>2, <1>5, <1>7
  <2>3. /\ Head(prog) = P[k]
        /\ Tail(prog) = SubSeq(P, k + 1, Len(P))
        /\ Len(prog) = Len(P) - k + 1
    BY <2>1, <2>2, Zenon
  <2>5. Len(Tail(prog)) = Len(P) - k
    BY <1>1, <1>2, <1>5, <1>7, <2>3
  <2>4. P[k] = StmtAt(node, k)
    BY <1>5, <1>7 DEF Matches
  <2> QED BY <1>1, <1>5, <2>3, <2>4, <2>5, Zenon
<1>9. /\ prog' \in Seq(Stmts) /\ Len(prog') <= PLen(node') /\ Ran' = k
      /\ prog' = SubSeq(Program(node'), Ran' + 1, PLen(node'))
  <2>1. Ran' = PLen(node') - Len(prog')
    BY DEF Ran
  <2>2. PLen(node') = PLen(node) /\ Program(node') = P
    BY <1>1
  <2>3. Ran' = k /\ Len(prog') <= PLen(node')
    BY <1>4, <1>7, <1>8, <2>1, <2>2
  <2>4. prog' \in Seq(Stmts)
    BY <1>1, <1>2
  <2> QED BY <1>8, <2>2, <2>3, <2>4, Zenon
<1> DEFINE Goal ==
      /\ env' \in [EnvNames -> [dtype : Floats, fmt : Fmts]]
      /\ env'["bias"].dtype = node.dbias
      /\ env'["left"].dtype = IF k >= LeftCast(node) THEN "float32" ELSE node.d0
      /\ env'["right"].dtype = IF k >= MatPos(node) THEN "float32" ELSE node.d1
      /\ acc' = IF k > MatPos(node) THEN "float32" ELSE "none"
      /\ k > MatPos(node) =>
           env'["out"].dtype = IF k >= OutCast(node) THEN node.dout ELSE "float32"
      /\ env'["out"].fmt = IF k = PLen(node) THEN node.fout ELSE "DefaultFormat"
<1>10. /\ s.op = "trans" => env' = [env EXCEPT ![s.v].fmt = s.f] /\ acc' = acc
       /\ s.op = "cast" => env' = [env EXCEPT ![s.v].dtype = s.d] /\ acc' = acc
       /\ s.op = "matmul" =>
            /\ env' = [env EXCEPT !["out"] =
                         [dtype |-> Promote(env["left"].dtype, env["right"].dtype),
                          fmt |-> "DefaultFormat"]]
            /\ acc' = Promote(env["left"].dtype, env["right"].dtype)
       /\ s.op = "random" => env' = env /\ acc' = acc
       /\ s.op = "add" =>
            /\ env' = [env EXCEPT !["out"].dtype = Promote(env["out"].dtype, env["bias"].dtype)]
            /\ acc' = acc
  BY DEF RunStmt
<1>11. /\ env["left"].dtype = IF k - 1 >= LeftCast(node) THEN "float32" ELSE node.d0
       /\ env["right"].dtype = IF k - 1 >= MatPos(node) THEN "float32" ELSE node.d1
       /\ acc = IF k - 1 > MatPos(node) THEN "float32" ELSE "none"
       /\ k - 1 > MatPos(node) =>
            env["out"].dtype = IF k - 1 >= OutCast(node) THEN node.dout ELSE "float32"
       /\ env["out"].fmt = IF k - 1 = PLen(node) THEN node.fout ELSE "DefaultFormat"
  BY <1>2, <1>7 DEF EnvAfter
<1>12. /\ node.d0 \in Floats /\ node.d1 \in Floats /\ node.dout \in Floats
       /\ node.fout \in Fmts /\ "DefaultFormat" \in Fmts
       /\ Len(TransOut(node)) = IF node.fout # "DefaultFormat" THEN 1 ELSE 0
  BY <1>3 DEF NodeOK, Fmts
<1>12a. /\ NTrans(node) \in Int /\ LeftCast(node) \in Int /\ MatPos(node) \in Int
        /\ OutCast(node) \in Int /\ BiasEnd(node) \in Int /\ PLen(node) \in Int
        /\ 0 <= NTrans(node) /\ NTrans(node) <= LeftCast(node)
        /\ LeftCast(node) <= NTrans(node) + 1 /\ LeftCast(node) <= MatPos(node)
        /\ MatPos(node) <= LeftCast(node) + 1 /\ MatPos(node) + 1 <= OutCast(node)
        /\ OutCast(node) <= MatPos(node) + 2 /\ OutCast(node) <= BiasEnd(node)
        /\ BiasEnd(node) <= PLen(node) /\ PLen(node) <= BiasEnd(node) + 1
  BY <1>4
<1>12b. /\ LeftCast(node) = NTrans(node) => node.d0 = "float32"
        /\ MatPos(node) = LeftCast(node) => node.d1 = "float32"
        /\ OutCast(node) = MatPos(node) + 1 => node.dout = "float32"
        /\ OutCast(node) = MatPos(node) + 2 => node.dout = "float16"
        /\ PLen(node) = BiasEnd(node) => node.fout = "DefaultFormat"
  BY <1>4, <1>12 DEF Floats
<1>13. Goal
  <2>1. /\ LeftCast(node) \in Int /\ MatPos(node) \in Int /\ OutCast(node) \in Int
        /\ s \in Stmts
    <3>1. LeftCast(node) \in Int /\ MatPos(node) \in Int /\ OutCast(node) \in Int
      BY <1>4
    <3>2. s \in Stmts
      BY <1>1, <1>2
    <3> QED BY <3>1, <3>2
  <2>2. CASE 1 <= k /\ k <= NTrans(node)
    <3>1. s = [op |-> "trans", f |-> "DefaultFormat",
               v |-> IF k = 1 /\ LeftFmt(node) = "FRACTAL_NZ" THEN "left" ELSE "right"]
      BY <1>2, <1>8, <2>1, <2>2, StmtAtCases
    <3>2. env' = [env EXCEPT ![s.v].fmt = "DefaultFormat"] /\ acc' = acc
          /\ s.v \in EnvNames /\ s.v \notin {"bias", "out"}
      BY <1>10, <3>1 DEF EnvNames
    <3>3. /\ env' \in [EnvNames -> [dtype : Floats, fmt : Fmts]]
          /\ \A w \in EnvNames : env'[w].dtype = env[w].dtype
          /\ \A w \in {"bias", "out"} : env'[w].fmt = env[w].fmt
      <4>1. /\ [env EXCEPT ![s.v].fmt = "DefaultFormat"]
                 \in [EnvNames -> [dtype : Floats, fmt : Fmts]]
            /\ \A w \in EnvNames :
                 /\ [env EXCEPT ![s.v].fmt = "DefaultFormat"][w].dtype = env[w].dtype
                 /\ [env EXCEPT ![s.v].fmt = "DefaultFormat"][w].fmt =
                      IF w = s.v THEN "DefaultFormat" ELSE env[w].fmt
        <5>1. \A f \in Fmts :
                /\ [env EXCEPT ![s.v].fmt = f] \in [EnvNames -> [dtype : Floats, fmt : Fmts]]
                /\ \A w \in EnvNames :
                     /\ [env EXCEPT ![s.v].fmt = f][w].dtype = env[w].dtype
                     /\ [env EXCEPT ![s.v].fmt = f][w].fmt = IF w = s.v THEN f ELSE env[w].fmt
          BY <1>2, <3>2, FmtUpdate, Zenon
        <5> QED BY <1>12, <5>1, Zenon
      <4> QED BY <3>2, <4>1 DEF EnvNames
    <3>4. /\ env'["left"].dtype = env["left"].dtype
          /\ env'["right"].dtype = env["right"].dtype
          /\ env'["bias"].dtype = env["bias"].dtype
          /\ env'["out"].dtype = env["out"].dtype
          /\ env'["out"].fmt = env["out"].fmt
      BY <3>3 DEF EnvNames
    <3>5. env'["left"].dtype = IF k >= LeftCast(node) THEN "float32" ELSE node.d0
      BY <1>7, <1>11, <1>12a, <1>12b, <2>2, <3>4
    <3>6. env'["right"].dtype = IF k >= MatPos(node) THEN "float32" ELSE node.d1
      BY <1>7, <1>11, <1>12a, <1>12b, <2>2, <3>4
    <3>7. acc' = IF k > MatPos(node) THEN "float32" ELSE "none"
      BY <1>7, <1>11, <1>12a, <2>2, <3>2
    <3>8. ~(k > MatPos(node))
      BY <1>7, <1>12a, <2>2
    <3>9. env'["out"].fmt = IF k = PLen(node) THEN node.fout ELSE "DefaultFormat"
      BY <1>7, <1>11, <1>12a, <2>2, <3>4
    <3> QED BY <1>2, <3>3, <3>4, <3>5, <3>6, <3>7, <3>8, <3>9
  <2>3. CASE NTrans(node) < k /\ k <= LeftCast(node)
    <3>1. s = [op |-> "cast", v |-> "left", d |-> "float32"]
      BY <1>2, <1>8, <2>1, <2>3, StmtAtCases
    <3>2. env' = [env EXCEPT !["left"].dtype = "float32"] /\ acc' = acc
      BY <1>10, <3>1
    <3>3. /\ env' \in [EnvNames -> [dtype : Floats, fmt : Fmts]]
          /\ \A w \in EnvNames :
               /\ env'[w].dtype = IF w = "left" THEN "float32" ELSE env[w].dtype
               /\ env'[w].fmt = env[w].fmt
      <4>1. "left" \in EnvNames /\ "float32" \in Floats
        BY DEF EnvNames, Floats
      <4>2. \A d \in Floats :
              /\ [env EXCEPT !["left"].dtype = d] \in [EnvNames -> [dtype : Floats, fmt : Fmts]]
              /\ \A w \in EnvNames :
                   /\ [env EXCEPT !["left"].dtype = d][w].dtype =
                        IF w = "left" THEN d ELSE env[w].dtype
                   /\ [env EXCEPT !["left"].dtype = d][w].fmt = env[w].fmt
        BY <1>2, <4>1, DTypeUpdate, Zenon
      <4> QED BY <3>2, <4>1, <4>2, Zenon
    <3>4. /\ env'["left"].dtype = "float32"
          /\ env'["right"].dtype = env["right"].dtype
          /\ env'["bias"].dtype = env["bias"].dtype
          /\ env'["out"].dtype = env["out"].dtype
          /\ env'["out"].fmt = env["out"].fmt
      BY <3>3 DEF EnvNames
    <3>5. env'["left"].dtype = IF k >= LeftCast(node) THEN "float32" ELSE node.d0
      BY <1>7, <1>12a, <2>3, <3>4
    <3>6. env'["right"].dtype = IF k >= MatPos(node) THEN "float32" ELSE node.d1
      BY <1>7, <1>11, <1>12a, <1>12b, <2>3, <3>4
    <3>7. acc' = IF k > MatPos(node) THEN "float32" ELSE "none"
      BY <1>7, <1>11, <1>12a, <2>3, <3>2
    <3>8. ~(k > MatPos(node))
      BY <1>7, <1>12a, <2>3
    <3>9. env'["out"].fmt = IF k = PLen(node) THEN node.fout ELSE "DefaultFormat"
      BY <1>7, <1>11, <1>12a, <2>3, <3>4
    <3> QED BY <1>2, <3>3, <3>4, <3>5, <3>6, <3>7, <3>8, <3>9
  <2>4. CASE LeftCast(node) < k /\ k <= MatPos(node)
    <3>1. s = [op |-> "cast", v |-> "right", d |-> "float32"]
      BY <1>2, <1>8, <2>1, <2>4, StmtAtCases
    <3>2. env' = [env EXCEPT !["right"].dtype = "float32"] /\ acc' = acc
      BY <1>10, <3>1
    <3>3. /\ env' \in [EnvNames -> [dtype : Floats, fmt : Fmts]]
          /\ \A w \in EnvNames :
               /\ env'[w].dtype = IF w = "right" THEN "float32" ELSE env[w].dtype
               /\ env'[w].fmt = env[w].fmt
      <4>1. "right" \in EnvNames /\ "float32" \in Floats
        BY DEF EnvNames, Floats
      <4>2. \A d \in Floats :
              /\ [env EXCEPT !["right"].dtype = d] \in [EnvNames -> [dtype : Floats, fmt : Fmts]]
              /\ \A w \in EnvNames :
                   /\ [env EXCEPT !["right"].dtype = d][w].dtype =
                        IF w = "right" THEN d ELSE env[w].dtype
                   /\ [env EXCEPT !["right"].dtype = d][w].fmt = env[w].fmt
        BY <1>2, <4>1, DTypeUpdate, Zenon
      <4> QED BY <3>2, <4>1, <4>2, Zenon
    <3>4. /\ env'["left"].dtype = env["left"].dtype
          /\ env'["right"].dtype = "float32"
          /\ env'["bias"].dtype = env["bias"].dtype
          /\ env'["out"].dtype = env["out"].dtype
          /\ env'["out"].fmt = env["out"].fmt
      BY <3>3 DEF EnvNames
    <3>5. env'["left"].dtype = IF k >= LeftCast(node) THEN "float32" ELSE node.d0
      BY <1>7, <1>11, <1>12a, <2>4, <3>4
    <3>6. env'["right"].dtype = IF k >= MatPos(node) THEN "float32" ELSE node.d1
      BY <1>7, <1>12a, <2>4, <3>4
    <3>7. acc' = IF k > MatPos(node) THEN "float32" ELSE "none"
      BY <1>7, <1>11, <1>12a, <2>4, <3>2
    <3>8. ~(k > MatPos(node))
      BY <1>7, <1>12a, <2>4
    <3>9. env'["out"].fmt = IF k = PLen(node) THEN node.fout ELSE "DefaultFormat"
      BY <1>7, <1>11, <1>12a, <2>4, <3>4
    <3> QED BY <1>2, <3>3, <3>4, <3>5, <3>6, <3>7, <3>8, <3>9
  <2>5. CASE k = MatPos(node) + 1
    <3>1. s = [op |-> "matmul"]
      BY <1>2, <1>8, <2>1, <2>5, StmtAtCases
    <3>2. env["left"].dtype = "float32" /\ env["right"].dtype = "float32"
      BY <1>7, <1>11, <1>12a, <2>5
    <3>3. Promote(env["left"].dtype, env["right"].dtype) = "float32"
      BY <3>2 DEF Promote
    <3>4. /\ env' = [env EXCEPT !["out"] = [dtype |-> "float32", fmt |-> "DefaultFormat"]]
          /\ acc' = "float32"
      BY <1>10, <3>1, <3>3
    <3>5. /\ env' \in [EnvNames -> [dtype : Floats, fmt : Fmts]]
          /\ \A w \in EnvNames :
               env'[w] = IF w = "out" THEN [dtype |-> "float32", fmt |-> "DefaultFormat"]
                         ELSE env[w]
      <4>1. "float32" \in Floats
        BY DEF Floats
      <4>2. \A d \in Floats : \A f \in Fmts :
              /\ [env EXCEPT !["out"] = [dtype |-> d, fmt |-> f]]
                   \in [EnvNames -> [dtype : Floats, fmt : Fmts]]
              /\ \A w \in EnvNames :
                   [env EXCEPT !["out"] = [dtype |-> d, fmt |-> f]][w] =
                     IF w = "out" THEN [dtype |-> d, fmt |-> f] ELSE env[w]
        BY <1>2, OutUpdate, Zenon
      <4> QED BY <1>12, <3>4, <4>1, <4>2, Zenon
    <3>6. /\ env'["left"].dtype = env["left"].dtype
          /\ env'["right"].dtype = env["right"].dtype
          /\ env'["bias"].dtype = env["bias"].dtype
          /\ env'["out"].dtype = "float32"
          /\ env'["out"].fmt = "DefaultFormat"
      BY <3>5 DEF EnvNames
    <3>7. /\ env'["left"].dtype = IF k >= LeftCast(node) THEN "float32" ELSE node.d0
          /\ env'["right"].dtype = IF k >= MatPos(node) THEN "float32" ELSE node.d1
          /\ acc' = IF k > MatPos(node) THEN "float32" ELSE "none"
      BY <1>7, <1>12a, <2>5, <3>2, <3>4, <3>6
    <3>8. env'["out"].dtype = IF k >= OutCast(node) THEN node.dout ELSE "float32"
      BY <1>7, <1>12a, <1>12b, <2>5, <3>6
    <3>9. env'["out"].fmt = IF k = PLen(node) THEN node.fout ELSE "DefaultFormat"
      BY <1>7, <1>12a, <1>12b, <2>5, <3>6
    <3> QED BY <1>2, <3>5, <3>6, <3>7, <3>8, <3>9
  <2>6. CASE MatPos(node) + 1 < k /\ k <= OutCast(node)
    <3>1. s = [op |-> "cast", v |-> "out", d |-> "float16"]
      BY <1>2, <1>8, <2>1, <2>6, StmtAtCases
    <3>2. env' = [env EXCEPT !["out"].dtype = "float16"] /\ acc' = acc
      BY <1>10, <3>1
    <3>3. /\ env' \in [EnvNames -> [dtype : Floats, fmt : Fmts]]
          /\ \A w \in EnvNames :
               /\ env'[w].dtype = IF w = "out" THEN "float16" ELSE env[w].dtype
               /\ env'[w].fmt = env[w].fmt
      <4>1. "out" \in EnvNames /\ "float16" \in Floats
        BY DEF EnvNames, Floats
      <4>2. \A d \in Floats :
              /\ [env EXCEPT !["out"].dtype = d] \in [EnvNames -> [dtype : Floats, fmt : Fmts]]
              /\ \A w \in EnvNames :
                   /\ [env EXCEPT !["out"].dtype = d][w].dtype =
                        IF w = "out" THEN d ELSE env[w].dtype
                   /\ [env EXCEPT !["out"].dtype = d][w].fmt = env[w].fmt
        BY <1>2, <4>1, DTypeUpdate, Zenon
      <4> QED BY <3>2, <4>1, <4>2, Zenon
    <3>4. /\ env'["left"].dtype = env["left"].dtype
          /\ env'["right"].dtype = env["right"].dtype
          /\ env'["bias"].dtype = env["bias"].dtype
          /\ env'["out"].dtype = "float16"
          /\ env'["out"].fmt = env["out"].fmt
      BY <3>3 DEF EnvNames
    <3>5. /\ env'["left"].dtype = IF k >= LeftCast(node) THEN "float32" ELSE node.d0
          /\ env'["right"].dtype = IF k >= MatPos(node) THEN "float32" ELSE node.d1
          /\ acc' = IF k > MatPos(node) THEN "float32" ELSE "none"
      BY <1>7, <1>11, <1>12a, <2>6, <3>2, <3>4
    <3>6. env'["out"].dtype = IF k >= OutCast(node) THEN node.dout ELSE "float32"
      BY <1>7, <1>12a, <1>12b, <2>6, <3>4
    <3>7. env'["out"].fmt = IF k = PLen(node) THEN node.fout ELSE "DefaultFormat"
      BY <1>7, <1>11, <1>12a, <1>12b, <2>6, <3>4
    <3> QED BY <1>2, <3>3, <3>4, <3>5, <3>6, <3>7
  <2>7. CASE OutCast(node) < k /\ k < BiasEnd(node)
    <3>1. s = [op |-> "random"]
      BY <1>2, <1>8, <2>1, <2>7, StmtAtCases
    <3>2. env' = env /\ acc' = acc
      BY <1>10, <3>1
    <3> QED BY <1>2, <1>7, <1>11, <1>12a, <2>7, <3>2
  <2>8. CASE k = BiasEnd(node) /\ OutCast(node) < k
    <3>1. s = [op |-> "add"]
      BY <1>2, <1>8, <2>1, <2>8, StmtAtCases
    <3>2. env["out"].dtype = node.dout /\ env["bias"].dtype = node.dout
      BY <1>2, <1>7, <1>11, <1>12a, <2>8
    <3>3. Promote(env["out"].dtype, env["bias"].dtype) = node.dout
      BY <1>12, <3>2 DEF Promote, Floats
    <3>4. env' = [env EXCEPT !["out"].dtype = node.dout] /\ acc' = acc
      BY <1>10, <3>1, <3>3
    <3>5. /\ env' \in [EnvNames -> [dtype : Floats, fmt : Fmts]]
          /\ \A w \in EnvNames :
               /\ env'[w].dtype = IF w = "out" THEN node.dout ELSE env[w].dtype
               /\ env'[w].fmt = env[w].fmt
      <4>1. "out" \in EnvNames
        BY DEF EnvNames
      <4>2. \A d \in Floats :
              /\ [env EXCEPT !["out"].dtype = d] \in [EnvNames -> [dtype : Floats, fmt : Fmts]]
              /\ \A w \in EnvNames :
                   /\ [env EXCEPT !["out"].dtype = d][w].dtype =
                        IF w = "out" THEN d ELSE env[w].dtype
                   /\ [env EXCEPT !["out"].dtype = d][w].fmt = env[w].fmt
        BY <1>2, <4>1, DTypeUpdate, Zenon
      <4> QED BY <1>12, <3>4, <4>1, <4>2, Zenon
    <3>6. /\ env'["left"].dtype = env["left"].dtype
          /\ env'["right"].dtype = env["right"].dtype
          /\ env'["bias"].dtype = env["bias"].dtype
          /\ env'["out"].dtype = node.dout
          /\ env'["out"].fmt = env["out"].fmt
      BY <3>5 DEF EnvNames
    <3>7. /\ env'["left"].dtype = IF k >= LeftCast(node) THEN "float32" ELSE node.d0
          /\ env'["right"].dtype = IF k >= MatPos(node) THEN "float32" ELSE node.d1
          /\ acc' = IF k > MatPos(node) THEN "float32" ELSE "none"
          /\ env'["out"].dtype = IF k >= OutCast(node) THEN node.dout ELSE "float32"
      BY <1>7, <1>11, <1>12a, <2>8, <3>4, <3>6
    <3>8. env'["out"].fmt = IF k = PLen(node) THEN node.fout ELSE "DefaultFormat"
      BY <1>7, <1>11, <1>12a, <1>12b, <2>8, <3>6
    <3> QED BY <1>2, <3>5, <3>6, <3>7, <3>8
  <2>9. CASE BiasEnd(node) < k
    <3>1. s = [op |-> "trans", v |-> "out", f |-> node.fout]
      BY <1>2, <1>8, <2>1, <2>9, StmtAtCases
    <3>2. env' = [env EXCEPT !["out"].fmt = node.fout] /\ acc' = acc
      BY <1>10, <3>1
    <3>3. /\ env' \in [EnvNames -> [dtype : Floats, fmt : Fmts]]
          /\ \A w \in EnvNames :
               /\ env'[w].dtype = env[w].dtype
               /\ env'[w].fmt = IF w = "out" THEN node.fout ELSE env[w].fmt
      <4>1. "out" \in EnvNames
        BY DEF EnvNames
      <4>2. \A f \in Fmts :
              /\ [env EXCEPT !["out"].fmt = f] \in [EnvNames -> [dtype : Floats, fmt : Fmts]]
              /\ \A w \in EnvNames :
                   /\ [env EXCEPT !["out"].fmt = f][w].dtype = env[w].dtype
                   /\ [env EXCEPT !["out"].fmt = f][w].fmt =
                        IF w = "out" THEN f ELSE env[w].fmt
        <5>1. \A v \in EnvNames : \A f \in Fmts :
                /\ [env EXCEPT ![v].fmt = f] \in [EnvNames -> [dtype : Floats, fmt : Fmts]]
                /\ \A w \in EnvNames :
                     /\ [env EXCEPT ![v].fmt = f][w].dtype = env[w].dtype
                     /\ [env EXCEPT ![v].fmt = f][w].fmt = IF w = v THEN f ELSE env[w].fmt
          BY <1>2, FmtUpdate, Zenon
        <5> QED BY <4>1, <5>1, Zenon
      <4> QED BY <1>12, <3>2, <4>1, <4>2, Zenon
    <3>4. /\ env'["left"].dtype = env["left"].dtype
          /\ env'["right"].dtype = env["right"].dtype
          /\ env'["bias"].dtype = env["bias"].dtype
          /\ env'["out"].dtype = env["out"].dtype
          /\ env'["out"].fmt = node.fout
      BY <3>3 DEF EnvNames
    <3>5. /\ env'["left"].dtype = IF k >= LeftCast(node) THEN "float32" ELSE node.d0
          /\ env'["right"].dtype = IF k >= MatPos(node) THEN "float32" ELSE node.d1
          /\ acc' = IF k > MatPos(node) THEN "float32" ELSE "none"
          /\ env'["out"].dtype = IF k >= OutCast(node) THEN node.dout ELSE "float32"
      BY <1>7, <1>11, <1>12a, <2>9, <3>2, <3>4
    <3>6. env'["out"].fmt = IF k = PLen(node) THEN node.fout ELSE "DefaultFormat"
      BY <1>7, <1>12a, <2>9, <3>4
    <3> QED BY <1>2, <3>3, <3>4, <3>5, <3>6
  <2> QED BY <1>7, <1>12a, <2>2, <2>3, <2>4, <2>5, <2>6, <2>7, <2>8, <2>9
<1>14. EnvAfter(Ran)'
  BY <1>1, <1>9, <1>13 DEF EnvAfter
<1>15. node' \in Nodes /\ pc' = "run"
  BY <1>1, <1>2
<1>16. /\ node' \in Nodes
       /\ env' \in [EnvNames -> [dtype : Floats, fmt : Fmts]]
       /\ env'["bias"].dtype = node'.dbias
       /\ pc' \in {"gen", "run", "done", "error"}
       /\ pc' \in {"run", "done"}
       /\ pc' # "gen" /\ pc' # "done"
  BY <1>1, <1>13, <1>15
<1> QED BY <1>9, <1>14, <1>16 DEF PInv


(* Returning leaves the program and the locals as they are. *)
LEMMA ReturnPInv == PInv /\ Return => PInv'
<1> SUFFICES ASSUME PInv, Return PROVE PInv'
  OBVIOUS
<1>1. /\ pc = "run" /\ prog = <<>> /\ pc' = "done"
      /\ node' = node /\ prog' = prog /\ env' = env /\ acc' = acc
  BY DEF Return
<1>2. Ran' = Ran
  BY <1>1 DEF Ran
<1>3. EnvAfter(Ran)'
  BY <1>1, <1>2 DEF PInv, EnvAfter
<1> QED BY <1>1, <1>2, <1>3 DEF PInv

(* A step that changes none of the variables keeps the invariant. *)
LEMMA StutterPInv == PInv /\ UNCHANGED vars => PInv'
<1> SUFFICES ASSUME PInv, UNCHANGED vars PROVE PInv'
  OBVIOUS
<1>1. node' = node /\ prog' = prog /\ env' = env /\ acc' = acc /\ pc' = pc
  BY DEF vars
<1>2. Ran' = Ran
  BY <1>1 DEF Ran
<1>3. pc \in {"run", "done"} => EnvAfter(Ran)'
  BY <1>1, <1>2 DEF PInv, EnvAfter
<1>4. pc = "gen" => EnvAfter(0)'
  BY <1>1 DEF PInv, EnvAfter
<1> QED BY <1>1, <1>2, <1>3, <1>4 DEF PInv

(* With a bias of the output's dtype, every step keeps the invariant. *)
LEMMA NextPInv ==
  ASSUME BiasSameType
  PROVE  PInv /\ [Next]_vars => PInv'
<1> SUFFICES ASSUME PInv, [Next]_vars PROVE PInv'
  OBVIOUS
<1>1. node.dbias = node.dout
  <2>1. node \in Nodes
    BY DEF PInv
  <2> QED BY <2>1, BiasDType
<1>2. CASE Generate
  BY <1>2, GeneratePInv
<1>3. CASE RunStmt
  BY <1>1, <1>3, RunStmtPInv
<1>4. CASE Return
  BY <1>4, ReturnPInv
<1>5. CASE UNCHANGED vars
  BY <1>5, StutterPInv
<1> QED BY <1>2, <1>3, <1>4, <1>5 DEF Next

(* Once matmul_func has returned, the invariant gives the policy. *)
LEMMA PInvPolicy == PInv => NumericPolicy
<1> SUFFICES ASSUME PInv, pc = "done"
             PROVE  /\ (node.d0 = "float16" \/ node.d1 = "float16") => acc = "float32"
                    /\ env["out"].dtype = node.dout
                    /\ env["out"].fmt = node.fout
  BY DEF NumericPolicy
<1>1. prog = <<>> /\ EnvAfter(Ran) /\ node \in Nodes
  BY DEF PInv
<1>2. /\ MatPos(node) \in Int /\ OutCast(node) \in Int /\ PLen(node) \in Int
      /\ MatPos(node) < OutCast(node) /\ OutCast(node) <= PLen(node)
  <2>1. /\ NTrans(node) \in Int /\ 0 <= NTrans(node) /\ NTrans(node) <= 2
        /\ LeftCast(node) = NTrans(node) + (IF node.d0 = "float16" THEN 1 ELSE 0)
        /\ MatPos(node) = LeftCast(node) + (IF node.d1 = "float16" THEN 1 ELSE 0)
        /\ OutCast(node) = MatPos(node) + 1 + (IF node.dout = "float16" THEN 1 ELSE 0)
        /\ BiasEnd(node) \in Int /\ OutCast(node) <= BiasEnd(node)
        /\ BiasEnd(node) <= OutCast(node) + 2
        /\ PLen(node) = BiasEnd(node) + (IF node.fout # "DefaultFormat" THEN 1 ELSE 0)
    BY <1>1, PosOrder
  <2> QED BY <2>1
<1>3. Ran = PLen(node)
  BY <1>1, <1>2 DEF Ran
<1> QED BY <1>1, <1>2, <1>3 DEF EnvAfter

(* NumericPolicy, for every node whose bias has the output's dtype: a    *)
(* float16 operand is multiplied in float32, and matmul_func returns the  *)
(* output's dtype in the output's format (spec 4.5).                      *)
THEOREM NumericPolicyHolds ==
  ASSUME BiasSameType
  PROVE  Spec => []NumericPolicy
<1>1. Init => PInv
  BY InitPInv
<1>2. PInv /\ [Next]_vars => PInv'
  BY NextPInv
<1>3. PInv => NumericPolicy
  BY PInvPolicy
<1> QED BY <1>1, <1>2, <1>3, PTL DEF Spec

=============================================================================
