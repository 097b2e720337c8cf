--------------------------- MODULE MCTranslation ---------------------------
\* Declarations and statements small enough to try every short body: scalars,
\* two named outputs, structs, datetimes, and declarations that are refused.
EXTENDS Translation

N(word) == <<word, 0>>
MCNames == <<N("b"), N("d"), N("k"), N("o"), N("out"), N("p"), N("q"), N("r"), N("s"), N("t"), N("x"), N("y")>>

I(n) == Value("int", 2 * n)
F(halves) == Value("float", halves)
Var(name, type, value) == [name |-> N(name), type |-> type, value |-> value]
Node(id, constants, inputs, states, outputs, named) ==
  [id |-> id, constants |-> constants, inputs |-> inputs, states |-> states, outputs |-> outputs, named |-> named]
None == Value("none", 0)
In(name, type) == <<Var(name, type, None)>>

Scalars == Node("scalars", <<Var("k", "int", I(1))>>, In("x", "int"), <<Var("s", "int", I(0))>>, In("o", "int"), FALSE)
Named == Node("named", <<>>, In("x", "float"), <<Var("b", "bool", Value("bool", 0)), Var("s", "float", I(1))>>,
              In("o", "int") \o In("out", "float"), TRUE)
Points == Node("points", <<>>, In("p", "Point") \o In("x", "Pair"), <<Var("q", "Point", F(0))>>, In("o", "Point"), FALSE)
Times == Node("times", <<Var("d", "datetime", Value("datetime", 4))>>, <<>>,
              <<Var("s", "datetime", F(3)), Var("t", "datetime", Value("call", 2))>>, In("o", "datetime") \o In("out", "int"), TRUE)
Refused == {Node("duplicate", <<Var("k", "int", I(1))>>, In("k", "int"), <<>>, In("o", "int"), FALSE),
            Node("narrow", <<>>, In("x", "int"), <<Var("s", "int", F(1))>>, In("o", "int"), FALSE),
            Node("wrong", <<Var("k", "float", I(1))>>, <<>>, <<>>, In("o", "float"), FALSE)}
MCNodes == {Scalars, Named, Points, Times} \cup Refused

x == Name(N("x"))
y == Name(N("y"))
s == Name(N("s"))
k == Name(N("k"))
p == Name(N("p"))
q == Name(N("q"))
r == Name(N("r"))
d == Name(N("d"))
MCStatements(n) ==
  CASE n.id = "scalars" ->
         {Assign(N("y"), x), Assign(N("y"), Op("plus", x, k)), Assign(N("y"), Op("plus", y, x)), Assign(N("s"), y),
          Assign(N("s"), Op("plus", s, k)), Assign(N("y"), s), Assign(N("y"), Const(F(1))), Assign(N("k"), x), Assign(N("x"), y),
          SetOutput(N("output_0"), y), Return(<<y>>), Return(<<x>>), Return(<<s>>), Return(<<k>>), Return(<<Const(F(1))>>),
          Return(<<Op("plus", x, s)>>), Return(<<Op("less", x, k)>>), Return(<<Nil>>), Return(<<x, x>>)}
    [] n.id = "named" ->
         {Assign(N("y"), x), Assign(N("s"), Op("plus", s, x)), Assign(N("b"), Op("less", s, x)), Assign(N("s"), y), Assign(N("y"), s),
          Assign(N("o"), Const(I(1))), SetOutput(N("o"), Const(I(1))), SetOutput(N("o"), x), SetOutput(N("out"), s),
          SetOutput(N("out"), y), SetOutput(N("out"), Nil), SetOutput(N("y"), x), Return(<<Const(I(1)), s>>),
          Return(<<Nil, x>>), Return(<<x, Const(I(1))>>), Return(<<Const(I(1)), Op("plus", s, y)>>)}
    [] n.id = "points" ->
         {Assign(N("r"), p), Assign(N("r"), q), Assign(N("q"), p), SetField(N("r"), Const(F(2))),
          SetField(N("q"), y), SetField(N("q"), Op("plus", y, y)), Assign(N("y"), Field(r)), Assign(N("y"), Field(p)),
          Assign(N("o"), p), Return(<<r>>), Return(<<p>>), Return(<<q>>), Return(<<y>>),
          Return(<<x>>), Assign(N("q"), x), Assign(N("r"), y), Assign(N("y"), Op("less", y, r)), Assign(N("y"), Field(y))}
    [] n.id = "times" ->
         {Assign(N("y"), Datetime(6)), Assign(N("y"), d), Assign(N("s"), y), Assign(N("s"), Datetime(8)), Assign(N("t"), s),
          Assign(N("y"), Op("plus", s, y)), Return(<<y>>), Return(<<s>>), Return(<<d>>), Return(<<Datetime(6)>>),
          Assign(N("s"), Const(F(1))), SetOutput(N("out"), s), SetOutput(N("out"), y), Return(<<Const(F(1))>>)}
    [] OTHER -> {}
=============================================================================
