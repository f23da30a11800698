------------------------------ MODULE MCInline ------------------------------
(***************************************************************************)
(* Programs of three functions: g, called from f and from main; f, which   *)
(* calls itself in a tail position or not; and main.  Each function has    *)
(* several bodies.                                                         *)
(***************************************************************************)
EXTENDS Inline

CONSTANT InOrder  \* whether a tail call reads a parameter assigned before

Call(site, d, f, args) == [Stm("call", d, args, <<f>>) EXCEPT !.site = site]
Plus(d, a, b) == Stm("plus", d, <<a, b>>, << >>)
Load(d, a) == Stm("load", d, <<a>>, << >>)
Store(a, b) == Stm("store", None, <<a, b>>, << >>)
If(a, t, e) == Stm("cjump", None, <<a>>, <<t, e>>)
L(f, n) == <<f, "L", -n>>

G1 == 1
G2 == 2
t == [i \in 1000..1040 |-> temp(i)]

Head2(f, p, q) ==
  <<Label(<<f, "fun", 0>>), Move(p, temp(0)), Move(q, temp(1)), Label(Begin(f))>>

ReturnOf(f, a) == <<Move(0, a), Jump(Return(f))>>

(* g(1000, 1001) *)
SumG == Head2("g", 1000, 1001) \o <<Plus(1002, t[1000], t[1001])>> \o ReturnOf("g", t[1002])

StoreG == Head2("g", 1000, 1001) \o <<Store(name(G1), t[1000]), Store(name(G2), t[1001])>>

ArrayG ==
  Head2("g", 1000, 1001)
    \o <<Plus(1003, temp(FP), const(-(Saved + 1))), Store(t[1003], t[1000]),
         Load(1004, t[1003]), Plus(1005, t[1004], t[1001])>>
    \o ReturnOf("g", t[1005])

EarlyG ==
  Head2("g", 1000, 1001)
    \o <<If(t[1000], L("g", 1), L("g", 2)), Label(L("g", 1))>>
    \o ReturnOf("g", const(5))
    \o <<Label(L("g", 2)), Load(1002, name(G1))>>
    \o ReturnOf("g", t[1002])

(* 1 + g(a - 1, b) *)
DeepG ==
  Head2("g", 1000, 1001)
    \o <<If(t[1000], L("g", 1), L("g", 2)), Label(L("g", 1)),
         Plus(1002, t[1000], const(-1)), Call(10, 1003, "g", <<t[1002], t[1001]>>),
         Plus(1004, t[1003], const(1))>>
    \o ReturnOf("g", t[1004])
    \o <<Label(L("g", 2))>> \o ReturnOf("g", t[1001])

G == {[body |-> SumG, stksize |-> Saved], [body |-> StoreG, stksize |-> Saved],
      [body |-> ArrayG, stksize |-> Saved + 1], [body |-> EarlyG, stksize |-> Saved],
      [body |-> DeepG, stksize |-> Saved]}

(* A call of g, whose result, if it has one, is in d afterwards.           *)
CallG(site, void, d, args) ==
  IF void THEN <<Call(site, None, "g", args), Move(d, const(3))>> ELSE <<Call(site, d, "g", args)>>

(* f(1010, 1011): while the first is positive, calls g and then itself.    *)
F(kind, y, void) ==
  [body |->
    Head2("f", 1010, 1011)
      \o <<Plus(1016, temp(FP), const(-(Saved + 1))), Store(t[1016], t[1010]),
           If(t[1010], L("f", 1), L("f", 2)), Label(L("f", 1)),
           Plus(1012, t[1010], const(-1))>>
      \o CallG(20, void, 1013, <<t[1012], t[1011]>>)
      \o <<Load(1017, t[1016]), Plus(1012, t[1017], const(-1))>>
      \o (CASE kind = "value" -> <<Call(21, 1014, "f", <<t[1012], y>>)>> \o ReturnOf("f", t[1014])
            [] kind = "void" -> <<Call(21, None, "f", <<t[1012], y>>), Jump(Return("f"))>>
            [] kind = "deep" -> <<Call(21, 1014, "f", <<t[1012], y>>),
                                  Plus(1015, t[1014], t[1013])>> \o ReturnOf("f", t[1015])
            [] kind = "other" -> <<Call(21, 1014, "f", <<t[1012], y>>)>>
                                    \o ReturnOf("f", t[1011]))
      \o <<Label(L("f", 2)), Store(name(G1), t[1011])>>
      \o IF kind = "void" THEN << >> ELSE ReturnOf("f", t[1011]),
   stksize |-> Saved + 1]

Kinds == {"value", "void", "deep", "other"}
Second == {t[1011], t[1013]} \cup IF InOrder THEN {} ELSE {t[1010]}

Put(site, a) == Call(site, None, "putint", <<a>>)

(* Calls g twice, then f, and prints everything. *)
Main(x, callsG, callsF, voidG, voidF) ==
  [body |->
    <<Label(<<"main", "fun", 0>>), Label(Begin("main")),
      Store(name(G1), const(7)), Store(name(G2), const(8)),
      Plus(1030, temp(FP), const(-(Saved + 1))), Store(t[1030], const(9))>>
    \o (IF callsG THEN CallG(30, voidG, 1020, <<const(x), const(4)>>)
                       \o <<Put(31, t[1020]), Call(32, None, "g", <<t[1020], const(3)>>)>>
                  ELSE << >>)
    \o (IF ~ callsF THEN << >>
        ELSE IF voidF THEN <<Call(33, None, "f", <<const(x), const(6)>>)>>
        ELSE <<Call(33, 1022, "f", <<const(x), const(6)>>), Put(34, t[1022])>>)
    \o <<Load(1023, name(G1)), Put(35, t[1023]), Load(1024, name(G2)), Put(36, t[1024]),
         Load(1025, t[1030]), Put(37, t[1025])>>
    \o ReturnOf("main", const(0)),
   stksize |-> Saved + 1]

Program(g, kind, y, x, p, q) ==
  LET void == g.body = StoreG
  IN  [f \in {"g", "f", "main"} |->
         CASE f = "g" -> g
           [] f = "f" -> F(kind, y, void)
           [] OTHER -> Main(x, p, q, void, kind = "void")]

AllPrograms ==
  {Program(g, kind, y, x, p, q) :
     g \in G, kind \in Kinds, y \in Second, x \in {0, 2}, p, q \in BOOLEAN}

(* f prints what the array it is given holds, and passes itself one of its *)
(* own.                                                                    *)
OwnArray ==
  [body |->
    Head2("f", 1010, 1011)
      \o <<Plus(1016, temp(FP), const(-(Saved + 1))), Store(t[1016], t[1011]),
           Load(1017, t[1010]), Put(20, t[1017]),
           If(t[1011], L("f", 1), L("f", 2)), Label(L("f", 1)),
           Plus(1012, t[1011], const(-1)),
           Call(21, 1014, "f", <<t[1016], t[1012]>>)>>
      \o ReturnOf("f", t[1014])
      \o <<Label(L("f", 2))>> \o ReturnOf("f", t[1011]),
   stksize |-> Saved + 1]

ArrayPrograms ==
  {[f \in {"g", "f", "main"} |->
      CASE f = "g" -> g
        [] f = "f" -> OwnArray
        [] OTHER ->
             [body |-> <<Label(Begin("main")), Plus(1030, temp(FP), const(-(Saved + 1))),
                         Store(t[1030], const(9)),
                         Call(30, 1031, "f", <<t[1030], const(x)>>), Put(31, t[1031])>>
                       \o ReturnOf("main", const(0)),
              stksize |-> Saved + 1]] : g \in G, x \in 0..2}

InDefinedOrder == <<"g", "f", "main">>
=============================================================================
