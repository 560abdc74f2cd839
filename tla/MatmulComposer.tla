--------------------------- MODULE MatmulComposer ---------------------------
(***************************************************************************)
(* matmul_str (op_dsl.py lines 456-504) with np_matmul_str (346-376) and   *)
(* convert_fracal_shape (379-385): the generator of the "MatMul" and       *)
(* "BatchMatMul" entries (lines 749, 753).  Generation resolves the        *)
(* operand formats, may raise, and emits a program; the program then runs *)
(* statement by statement inside matmul_func.                              *)
(*                                                                         *)
(* Values are abstracted to their dtype and layout: the properties are    *)
(* about the precision policy and about which configurations raise.       *)
(* The layout conversions are the ones LayoutConvert models.              *)
(***************************************************************************)
EXTENDS Integers, Sequences

CONSTANTS
  FmtAttrVals,   \* values of left_format / right_format ("absent": missing)
  PriFmtVals,    \* values of pri_format
  OutFmtVals,    \* values of output[0]['format']
  DTypes,        \* data types of the operands and of the output
  BiasVals,      \* whether a bias input exists: subset of BOOLEAN
  BiasSameType   \* TRUE: the bias has the output's data type

ASSUME ConstAssumption ==
  /\ DTypes \subseteq {"float16", "float32"} /\ DTypes # {}
  /\ BiasVals \subseteq BOOLEAN /\ BiasSameType \in BOOLEAN

Supported ==
  {<<"DefaultFormat", "FRACTAL_NZ">>, <<"NCHW", "FRACTAL_NZ">>,
   <<"FRACTAL_NZ", "DefaultFormat">>, <<"FRACTAL_NZ", "NCHW">>}

VARIABLES
  node,   \* the operator node: attributes and input/output descriptors
  prog,   \* statements of the generated program still to run
  env,    \* [name -> [dtype, fmt]] of matmul_func's locals
  acc,    \* the dtype np.matmul computed in
  err,    \* the exception raised, "none" if none
  pc      \* "gen", "run", "done" or "error"

vars == <<node, prog, env, acc, err, pc>>

Nodes ==
  {n \in [lf : FmtAttrVals, rf : FmtAttrVals, pri : PriFmtVals,
          ta : BOOLEAN, tb : BOOLEAN, d0 : DTypes, d1 : DTypes,
          dout : DTypes, fout : OutFmtVals, bias : BiasVals, dbias : DTypes,
          blen : BOOLEAN] :
     BiasSameType => n.dbias = n.dout}

(* left_format, falling back on pri_format when the attribute is missing *)
(* (get_attr returns [], which is falsy).                                *)
LeftFmt(n) == IF n.lf = "absent" THEN n.pri ELSE n.lf
RightFmt(n) == IF n.rf = "absent" THEN n.pri ELSE n.rf

(* convert_fracal_shape returns a shape only for "zN" and "zZ" and None   *)
(* otherwise; matmul_str recomputes right_ori_shape with "zN" when the   *)
(* right operand is FRACTAL_NZ.                                           *)
RightOriShapeIsNone(n) ==
  RightFmt(n) \notin {"zN", "zZ"} /\ RightFmt(n) # "FRACTAL_NZ"

(* Mutant of MatmulStmts: the result is not cast back to float16. *)
MatmulStmtsNoDowncast(n) ==
  (IF n.d0 = "float16" THEN <<[op |-> "cast", v |-> "left", d |-> "float32"]>> ELSE <<>>)
  \o (IF n.d1 = "float16" THEN <<[op |-> "cast", v |-> "right", d |-> "float32"]>> ELSE <<>>)
  \o <<[op |-> "matmul"]>>

(* np_matmul_str: float16 operands are cast to float32, np.matmul (with  *)
(* swapaxes for the transpose flags: no effect on dtype or layout), and  *)
(* the result cast to float16 when the output is declared float16.       *)
MatmulStmts(n) ==
  (IF n.d0 = "float16" THEN <<[op |-> "cast", v |-> "left", d |-> "float32"]>> ELSE <<>>)
  \o (IF n.d1 = "float16" THEN <<[op |-> "cast", v |-> "right", d |-> "float32"]>> ELSE <<>>)
  \o <<[op |-> "matmul"]>>
  \o (IF n.dout = "float16" THEN <<[op |-> "cast", v |-> "out", d |-> "float16"]>> ELSE <<>>)

(* The program matmul_str emits, in order. *)
Program(n) ==
  (IF LeftFmt(n) = "FRACTAL_NZ"
     THEN <<[op |-> "trans", v |-> "left", f |-> "DefaultFormat"]>> ELSE <<>>)
  \o (IF RightFmt(n) = "FRACTAL_NZ"
        THEN <<[op |-> "trans", v |-> "right", f |-> "DefaultFormat"]>> ELSE <<>>)
  \o MatmulStmts(n)
  \o (IF n.bias
        THEN (IF n.blen THEN <<>> ELSE <<[op |-> "random"]>>) \o <<[op |-> "add"]>>
        ELSE <<>>)
  \o (IF n.fout # "DefaultFormat"
        THEN <<[op |-> "trans", v |-> "out", f |-> n.fout]>> ELSE <<>>)

Init ==
  /\ node \in Nodes
  /\ prog = <<>>
  /\ env = [v \in {"left", "right", "bias", "out"} |->
              [dtype |-> CASE v = "left" -> node.d0 [] v = "right" -> node.d1
                           [] OTHER -> node.dbias,
               fmt |-> CASE v = "left" -> LeftFmt(node) [] v = "right" -> RightFmt(node)
                         [] OTHER -> "DefaultFormat"]]
  /\ acc = "none"
  /\ err = "none"
  /\ pc = "gen"

(* matmul_str runs: right_ori_shape[-1] of None raises TypeError when a  *)
(* bias is present; get_trans_data_str raises ValueError for the output  *)
(* conversion when (DefaultFormat, output format) is not supported.      *)
Generate ==
  /\ pc = "gen"
  /\ CASE node.bias /\ RightOriShapeIsNone(node) ->
            err' = "TypeError" /\ pc' = "error" /\ prog' = prog
       [] node.fout # "DefaultFormat" /\ <<"DefaultFormat", node.fout>> \notin Supported ->
            err' = "ValueError" /\ pc' = "error" /\ prog' = prog
       [] OTHER ->
            err' = err /\ pc' = "run" /\ prog' = Program(node)
  /\ UNCHANGED <<node, env, acc>>

(* numpy's result type of two floating operands. *)
Promote(a, b) == IF a = "float32" \/ b = "float32" THEN "float32" ELSE "float16"

(* One statement of matmul_func. *)
RunStmt ==
  /\ pc = "run"
  /\ prog # <<>>
  /\ LET s == Head(prog) IN
       CASE s.op = "trans" ->
              env' = [env EXCEPT ![s.v].fmt = s.f] /\ acc' = acc
         [] s.op = "cast" ->
              env' = [env EXCEPT ![s.v].dtype = s.d] /\ acc' = acc
         [] s.op = "matmul" ->
              LET d == Promote(env["left"].dtype, env["right"].dtype)
              IN env' = [env EXCEPT !["out"] = [dtype |-> d, fmt |-> "DefaultFormat"]]
                 /\ acc' = d
         [] s.op = "random" ->
              env' = env /\ acc' = acc
         [] OTHER ->
              env' = [env EXCEPT !["out"].dtype = Promote(@, env["bias"].dtype)]
              /\ acc' = acc
  /\ prog' = Tail(prog)
  /\ UNCHANGED <<node, err, pc>>

(* matmul_func returns its output. *)
Return ==
  /\ pc = "run"
  /\ prog = <<>>
  /\ pc' = "done"
  /\ UNCHANGED <<node, prog, env, acc, err>>

Next == Generate \/ RunStmt \/ Return

Spec == Init /\ [][Next]_vars /\ WF_vars(Next)

-----------------------------------------------------------------------------

(* Numeric policy (spec 4.5): when an operand is float16 the product is   *)
(* computed in float32, and the value returned has the declared output    *)
(* data type, in the declared output format.                              *)
NumericPolicy ==
  pc = "done" =>
    /\ (node.d0 = "float16" \/ node.d1 = "float16") => acc = "float32"
    /\ env["out"].dtype = node.dout
    /\ env["out"].fmt = node.fout

(* Generation raises only for a format pair the layout converter does not *)
(* support: a MatMul node with a bias and supported formats gets a        *)
(* program (spec 4.5: an optional bias operand).                          *)
RaisesOnlyUnsupported ==
  pc = "error" => err = "ValueError"

=============================================================================
