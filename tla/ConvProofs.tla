----------------------------- MODULE ConvProofs -----------------------------
(***************************************************************************)
(* Proofs about Conv2D: with unit dilation the program conv_2d_str emits   *)
(* computes the spec's convolution, for every input and filter size,      *)
(* stride and padding.                                                     *)
(***************************************************************************)
EXTENDS Conv2D, TLAPS

(* A window of k rows that starts at q * s, for q below the code's out_h  *)
(* (L - k) // s + 1, lies inside an axis of extent L: the unit-step slice *)
(* of it is not cut.                                                       *)
LEMMA WindowInside ==
  ASSUME NEW L \in Nat, NEW k \in Nat \ {0}, NEW s \in Nat \ {0}, k <= L,
         NEW q \in Nat, q < (L - k) \div s + 1
  PROVE  /\ q * s + k <= L
         /\ SliceLen(q * s, k, 1, L) = k
  <1>1. q <= (L - k) \div s
    OBVIOUS
  <1>2. ((L - k) \div s) * s <= L - k
    BY SMT
  <1>3. q * s <= ((L - k) \div s) * s
    BY <1>1, SMT
  <1>4. q * s + k <= L
    BY <1>2, <1>3
  <1>5. (L - 1 - q * s) \div 1 + 1 = L - q * s
    OBVIOUS
  <1> QED
    BY <1>4, <1>5 DEF SliceLen, MinOf

(* The fields of a node are numbers of the kinds the code reads. *)
LEMMA NodeType ==
  ASSUME NEW n \in Nodes
  PROVE  /\ n.h \in Nat \ {0} /\ n.w \in Nat \ {0}
         /\ n.kh \in Nat \ {0} /\ n.kw \in Nat \ {0}
         /\ n.sh \in Nat \ {0} /\ n.sw \in Nat \ {0}
         /\ n.dh \in Nat \ {0} /\ n.dw \in Nat \ {0}
         /\ n.pl \in Nat /\ n.pr \in Nat /\ n.pt \in Nat /\ n.pb \in Nat
         /\ (n.kh - 1) * n.dh + 1 <= n.h + n.pt + n.pb
         /\ (n.kw - 1) * n.dw + 1 <= n.w + n.pl + n.pr
  BY ConstAssumption DEF Nodes

(* The terms of filter tap (a, b) in output element (ii, jj), unit      *)
(* dilation: a name for one member of the union Terms builds.            *)
TapSet(n, ii, jj, a, b) ==
  {<<p, <<a, b>>>> : p \in Padded(n, ii * n.sh + a, jj * n.sw + b)}

TapsOf(n, ii, jj) ==
  UNION {TapSet(n, ii, jj, a, b) : a \in 0 .. n.kh - 1, b \in 0 .. n.kw - 1}

(* With unit dilation, no window of an output element inside the code's  *)
(* out_h x out_w is cut at the end of the padded input.                   *)
LEMMA WindowsUncut ==
  ASSUME NEW n \in Nodes, n.dh = 1, n.dw = 1,
         NEW ii \in Nat, ii < (n.h + n.pt + n.pb - n.kh) \div n.sh + 1,
         NEW jj \in Nat, jj < (n.w + n.pl + n.pr - n.kw) \div n.sw + 1
  PROVE  /\ SliceLen(ii * n.sh, n.kh, n.dh, n.h + n.pt + n.pb) = n.kh
         /\ SliceLen(jj * n.sw, n.kw, n.dw, n.w + n.pl + n.pr) = n.kw
  <1>0. /\ n.h \in Nat \ {0} /\ n.w \in Nat \ {0}
        /\ n.kh \in Nat \ {0} /\ n.kw \in Nat \ {0}
        /\ n.sh \in Nat \ {0} /\ n.sw \in Nat \ {0}
        /\ n.pl \in Nat /\ n.pr \in Nat /\ n.pt \in Nat /\ n.pb \in Nat
        /\ n.kh <= n.h + n.pt + n.pb /\ n.kw <= n.w + n.pl + n.pr
    BY NodeType
  <1> DEFINE Lh == n.h + n.pt + n.pb
             Lw == n.w + n.pl + n.pr
  <1>1. SliceLen(ii * n.sh, n.kh, n.dh, Lh) = n.kh
    <2>1. Lh \in Nat /\ n.kh <= Lh /\ ii < (Lh - n.kh) \div n.sh + 1
      BY <1>0
    <2>2. SliceLen(ii * n.sh, n.kh, 1, Lh) = n.kh
      <3>1. n.kh \in Nat \ {0} /\ n.sh \in Nat \ {0}
        BY <1>0
      <3> QED
        BY <3>1, <2>1, WindowInside
    <2> QED
      BY <2>2
  <1>2. SliceLen(jj * n.sw, n.kw, n.dw, Lw) = n.kw
    <2>1. Lw \in Nat /\ n.kw <= Lw /\ jj < (Lw - n.kw) \div n.sw + 1
      BY <1>0
    <2>2. SliceLen(jj * n.sw, n.kw, 1, Lw) = n.kw
      <3>1. n.kw \in Nat \ {0} /\ n.sw \in Nat \ {0}
        BY <1>0
      <3> QED
        BY <3>1, <2>1, WindowInside
    <2> QED
      BY <2>2
  <1> QED
    BY <1>1, <1>2 DEF Lh, Lw

(* With unit dilation, the terms the statement at (ii, jj) sums are the  *)
(* spec's kh x kw taps of the window, whenever (ii, jj) is inside the     *)
(* code's out_h x out_w.                                                  *)
LEMMA TermsAreTaps ==
  ASSUME NEW n \in Nodes, n.dh = 1, n.dw = 1,
         NEW ii \in Nat, ii < (n.h + n.pt + n.pb - n.kh) \div n.sh + 1,
         NEW jj \in Nat, jj < (n.w + n.pl + n.pr - n.kw) \div n.sw + 1
  PROVE  Terms(n, ii, jj) = RefCell(n, ii, jj)
  <1>0. /\ n.h \in Nat \ {0} /\ n.w \in Nat \ {0}
        /\ n.kh \in Nat \ {0} /\ n.kw \in Nat \ {0}
        /\ n.sh \in Nat \ {0} /\ n.sw \in Nat \ {0}
        /\ n.pl \in Nat /\ n.pr \in Nat /\ n.pt \in Nat /\ n.pb \in Nat
    BY NodeType
  <1>1. /\ SliceLen(ii * n.sh, n.kh, n.dh, n.h + n.pt + n.pb) = n.kh
        /\ SliceLen(jj * n.sw, n.kw, n.dw, n.w + n.pl + n.pr) = n.kw
    BY WindowsUncut
  <1>3. Bcast(n.kh, n.kh) = n.kh /\ Bcast(n.kw, n.kw) = n.kw
    BY DEF Bcast
  <1> DEFINE at(l, x) == IF l = 1 THEN 0 ELSE x
  <1>4. \A a \in 0 .. n.kh - 1 : at(n.kh, a) = a
    BY <1>0
  <1>5. \A b \in 0 .. n.kw - 1 : at(n.kw, b) = b
    BY <1>0
  <1> DEFINE Tap(a, b) == TapSet(n, ii, jj, a, b)
             Taps == TapsOf(n, ii, jj)
  <1>6. Terms(n, ii, jj) = Taps
    BY <1>1, <1>3, <1>4, <1>5 DEF Terms, Taps, TapsOf, Tap, TapSet
  <1>7. ASSUME NEW a \in Int, NEW b \in Int
        PROVE  Padded(n, ii * n.sh + a, jj * n.sw + b) = RefInput(n, ii * n.sh + a, jj * n.sw + b)
    BY <1>0 DEF Padded, RefInput
  <1>8. ASSUME NEW t \in Taps PROVE t \in RefCell(n, ii, jj)
    <2>1. PICK a \in 0 .. n.kh - 1, b \in 0 .. n.kw - 1 : t \in Tap(a, b)
      BY <1>8 DEF Taps, TapsOf, Tap
    <2>2. PICK p \in Padded(n, ii * n.sh + a, jj * n.sw + b) : t = <<p, <<a, b>>>>
      BY <2>1 DEF Tap, TapSet
    <2>3. p \in RefInput(n, ii * n.sh + a, jj * n.sw + b)
      BY <2>2, <1>7, <1>0
    <2>4. p \in (0 .. n.h - 1) \X (0 .. n.w - 1)
      BY <2>3 DEF RefInput
    <2> QED
      BY <2>2, <2>3, <2>4, n.dh = 1, n.dw = 1 DEF RefCell
  <1>9. ASSUME NEW t \in RefCell(n, ii, jj) PROVE t \in Taps
    <2>1. PICK p \in (0 .. n.h - 1) \X (0 .. n.w - 1),
               a \in 0 .. n.kh - 1, b \in 0 .. n.kw - 1 : t = <<p, <<a, b>>>>
      BY <1>9 DEF RefCell
    <2>5. t[1] = p /\ t[2][1] = a /\ t[2][2] = b
      BY <2>1
    <2>6. t[1] \in RefInput(n, ii * n.sh + t[2][1] * n.dh, jj * n.sw + t[2][2] * n.dw)
      BY <1>9 DEF RefCell
    <2>7. a * n.dh = a /\ b * n.dw = b
      BY <1>0
    <2>2. p \in RefInput(n, ii * n.sh + a, jj * n.sw + b)
      BY <2>5, <2>6, <2>7
    <2>3. p \in Padded(n, ii * n.sh + a, jj * n.sw + b)
      BY <2>2, <1>7, <1>0
    <2>4. t \in Tap(a, b)
      <3>1. \E q \in Padded(n, ii * n.sh + a, jj * n.sw + b) : t = <<q, <<a, b>>>>
        BY <2>1, <2>3
      <3> QED
        BY <3>1 DEF Tap, TapSet
    <2>8. TapSet(n, ii, jj, a, b)
            \in {TapSet(n, ii, jj, a2, b2) : a2 \in 0 .. n.kh - 1, b2 \in 0 .. n.kw - 1}
      OBVIOUS
    <2> QED
      BY <2>4, <2>8 DEF Taps, TapsOf, Tap
  <1>10. Taps = RefCell(n, ii, jj)
    <2>1. \A t : t \in Taps <=> t \in RefCell(n, ii, jj)
      BY <1>8, <1>9
    <2> QED
      BY <2>1, Zenon
  <1> QED
    BY <1>6, <1>10

-----------------------------------------------------------------------------
(* The inductive invariant.  The loop has written exactly the cells      *)
(* before (i, j) in row-major order, each with the spec's taps; out_h and *)
(* out_w agree with the spec's extents (dilation 1); and no step raised.  *)
Written(x) == x[1] < i \/ (x[1] = i /\ x[2] < j)

IInv ==
  /\ node \in Nodes /\ node.dh = 1 /\ node.dw = 1
  /\ pc \in {"setup", "loop", "done"}
  /\ i \in Nat /\ j \in Nat
  /\ pc = "setup" => i = 0 /\ j = 0
  /\ pc \in {"loop", "done"} =>
       /\ oh = RefOH(node) /\ ow = RefOW(node)
       /\ oh \in Nat \ {0} /\ ow \in Nat \ {0}
       /\ out = [x \in (0 .. oh - 1) \X (0 .. ow - 1) |->
                  IF Written(x) THEN RefCell(node, x[1], x[2]) ELSE {}]
  /\ pc = "loop" => i < oh /\ j < ow
  /\ pc = "done" => i = oh /\ j = 0

(* With unit dilation the spec's extents are the code's out_h, out_w,    *)
(* and both are positive.                                                 *)
LEMMA Extents ==
  ASSUME NEW n \in Nodes, n.dh = 1, n.dw = 1
  PROVE  /\ RefOH(n) = (n.h + n.pt + n.pb - n.kh) \div n.sh + 1
         /\ RefOW(n) = (n.w + n.pl + n.pr - n.kw) \div n.sw + 1
         /\ RefOH(n) \in Nat \ {0} /\ RefOW(n) \in Nat \ {0}
  <1>0. /\ n.h \in Nat \ {0} /\ n.w \in Nat \ {0}
        /\ n.kh \in Nat \ {0} /\ n.kw \in Nat \ {0}
        /\ n.sh \in Nat \ {0} /\ n.sw \in Nat \ {0}
        /\ n.pl \in Nat /\ n.pr \in Nat /\ n.pt \in Nat /\ n.pb \in Nat
        /\ n.kh <= n.h + n.pt + n.pb /\ n.kw <= n.w + n.pl + n.pr
    BY NodeType
  <1>1. RefOH(n) = (n.h + n.pt + n.pb - n.kh) \div n.sh + 1
    BY <1>0 DEF RefOH
  <1>2. RefOW(n) = (n.w + n.pl + n.pr - n.kw) \div n.sw + 1
    BY <1>0 DEF RefOW
  <1>3. (n.h + n.pt + n.pb - n.kh) \div n.sh \in Nat
    BY <1>0, SMT
  <1>4. (n.w + n.pl + n.pr - n.kw) \div n.sw \in Nat
    BY <1>0, SMT
  <1> QED
    BY <1>1, <1>2, <1>3, <1>4

(* The program starts in the invariant when every dilation is 1. *)
LEMMA InitIInv ==
  ASSUME DilVals = {1}
  PROVE  Init => IInv
  BY DEF Init, IInv, Nodes

(* Every step of the program keeps the invariant. *)
LEMMA NextIInv ==
  IInv /\ [Next]_vars => IInv'
  <1> SUFFICES ASSUME IInv, [Next]_vars PROVE IInv'
    OBVIOUS
  <1>0. node \in Nodes /\ node.dh = 1 /\ node.dw = 1
    BY DEF IInv
  <1>1. CASE Setup
    <2>1. /\ oh' = RefOH(node) /\ ow' = RefOW(node)
          /\ oh' \in Nat \ {0} /\ ow' \in Nat \ {0}
      BY <1>0, <1>1, Extents DEF Setup
    <2>2. i = 0 /\ j = 0 /\ i' = 0 /\ j' = 0
      BY <1>1 DEF Setup, IInv
    <2>3. ASSUME NEW x \in (0 .. oh' - 1) \X (0 .. ow' - 1) PROVE ~Written(x)'
      BY <2>1, <2>2 DEF Written
    <2>4. out' = [x \in (0 .. oh' - 1) \X (0 .. ow' - 1) |->
                    IF Written(x)' THEN RefCell(node', x[1], x[2]) ELSE {}]
      BY <1>1, <2>3 DEF Setup
    <2> QED
      BY <1>0, <1>1, <2>1, <2>2, <2>4 DEF Setup, IInv
  <1>2. CASE Cell
    <2> DEFINE D == (0 .. oh - 1) \X (0 .. ow - 1)
               F(x) == IF Written(x) THEN RefCell(node, x[1], x[2]) ELSE {}
    <2>1. /\ pc = "loop" /\ i \in Nat /\ j \in Nat /\ i < oh /\ j < ow
          /\ oh = RefOH(node) /\ ow = RefOW(node)
          /\ oh \in Nat \ {0} /\ ow \in Nat \ {0}
          /\ out = [x \in D |-> F(x)]
      BY <1>2 DEF Cell, IInv
    <2>2. /\ i < (node.h + node.pt + node.pb - node.kh) \div node.sh + 1
          /\ j < (node.w + node.pl + node.pr - node.kw) \div node.sw + 1
      BY <1>0, <2>1, Extents
    <2>3. /\ SliceLen(i * node.sh, node.kh, node.dh, node.h + node.pt + node.pb) = node.kh
          /\ SliceLen(j * node.sw, node.kw, node.dw, node.w + node.pl + node.pr) = node.kw
      BY <1>0, <2>1, <2>2, WindowsUncut
    <2>4. Terms(node, i, j) = RefCell(node, i, j)
      BY <1>0, <2>1, <2>2, TermsAreTaps
    <2>5. /\ node.kh \in Nat \ {0} /\ node.kw \in Nat \ {0}
      BY <1>0, NodeType
    <2>6. ~(Bcast(node.kh, node.kh) < 0 \/ Bcast(node.kw, node.kw) < 0)
      BY <2>5 DEF Bcast
    <2>7. /\ out' = [out EXCEPT ![<<i, j>>] = RefCell(node, i, j)]
          /\ IF j + 1 < ow
               THEN j' = j + 1 /\ i' = i /\ pc' = "loop"
               ELSE /\ j' = 0 /\ i' = i + 1
                    /\ pc' = IF i + 1 < oh THEN "loop" ELSE "done"
          /\ UNCHANGED <<node, oh, ow>>
      BY <1>2, <2>3, <2>4, <2>6 DEF Cell
    <2>8. /\ i' \in Nat /\ j' \in Nat
          /\ pc' = "loop" => i' < oh /\ j' < ow
          /\ pc' = "done" => i' = oh /\ j' = 0
          /\ pc' \in {"loop", "done"}
      BY <2>1, <2>7
    <2>9. ASSUME NEW x \in D
          PROVE  Written(x)' <=> Written(x) \/ x = <<i, j>>
      <3>1. x = <<x[1], x[2]>> /\ x[1] \in 0 .. oh - 1 /\ x[2] \in 0 .. ow - 1
        OBVIOUS
      <3> QED
        BY <3>1, <2>1, <2>7 DEF Written
    <2>10. <<i, j>> \in D
      BY <2>1
    <2>11. out' = [x \in D |-> IF Written(x)' THEN RefCell(node, x[1], x[2]) ELSE {}]
      <3>1. out' = [x \in D |-> IF x = <<i, j>> THEN RefCell(node, i, j) ELSE F(x)]
        BY <2>1, <2>7, <2>10
      <3>2. ASSUME NEW x \in D
            PROVE  (IF x = <<i, j>> THEN RefCell(node, i, j) ELSE F(x))
                   = (IF Written(x)' THEN RefCell(node, x[1], x[2]) ELSE {})
        <4>1. CASE x = <<i, j>>
          BY <4>1, <2>9
        <4>2. CASE x # <<i, j>>
          BY <4>2, <2>9
        <4> QED
          BY <4>1, <4>2
      <3> QED
        BY <3>1, <3>2
    <2> QED
      BY <1>0, <2>1, <2>7, <2>8, <2>11 DEF IInv
  <1>3. CASE UNCHANGED vars
    BY <1>3 DEF IInv, vars, Written
  <1> QED
    BY <1>1, <1>2, <1>3 DEF Next

(* The invariant gives the property: no step raised, the extents are the  *)
(* spec's, and at "done" every cell of out has been written.              *)
LEMMA IInvMatches ==
  IInv => ConvMatchesSpec
  <1> SUFFICES ASSUME IInv, pc \in {"done", "error"}
               PROVE  /\ pc = "done"
                      /\ oh = RefOH(node) /\ ow = RefOW(node)
                      /\ \A x \in DOMAIN out : out[x] = RefCell(node, x[1], x[2])
    BY DEF ConvMatchesSpec
  <1>1. pc = "done" /\ i = oh /\ oh = RefOH(node) /\ ow = RefOW(node)
    BY DEF IInv
  <1>2. out = [x \in (0 .. oh - 1) \X (0 .. ow - 1) |->
                 IF Written(x) THEN RefCell(node, x[1], x[2]) ELSE {}]
    BY <1>1 DEF IInv
  <1>3. \A x \in (0 .. oh - 1) \X (0 .. ow - 1) : Written(x)
    BY <1>1 DEF Written, IInv
  <1> QED
    BY <1>1, <1>2, <1>3

(* conv_2d_str is correct for unit dilation: for every input and filter  *)
(* size, every stride and every padding, the program it emits finishes   *)
(* without a broadcast error, with the spec's extents and the spec's      *)
(* convolution in every element (ConvMatchesSpec).                        *)
THEOREM ConvCorrect ==
  DilVals = {1} /\ Spec => []ConvMatchesSpec
  <1>1. DilVals = {1} /\ Init => IInv
    BY InitIInv
  <1> QED
    BY <1>1, NextIInv, IInvMatches, PTL DEF Spec

=============================================================================
