------------------------------ MODULE MCInline ------------------------------
(***************************************************************************)
(* Programs for Inline: a leaf function g, a function f that calls it, and *)
(* main, in every order.  The bodies are the shapes the pass must tell     *)
(* apart: a call at the start, at the end and in the middle of a block, in *)
(* a loop whose phis name the block it splits, in one arm of a branch, two *)
(* calls in one block, several returns, a callee that is a loop, and       *)
(* functions that call each other.                                         *)
(***************************************************************************)
EXTENDS Execution

CONSTANTS UnusedParameters  \* may every parameter of a function go unused?

I(op, dst, args) == [op |-> op, dst |-> dst, args |-> args, labels |-> <<>>, callee |-> ""]
Call(dst, f, args) == [I("call", dst, args) EXCEPT !.callee = f]
Phi(dst, args, ls) == [I("phi", dst, args) EXCEPT !.labels = ls]
CBr(c, t, e) == [I("cbr", NoReg, <<c>>) EXCEPT !.labels = <<t, e>>]
Ret(args) == I("ret", NoReg, args)
N(k) == <<"imm", k>>
R(k) == Reg(k)
L(h) == <<h, 0, <<>>>>
B(h, insns) == [label |-> L(h), insns |-> insns]
F(name, n, blocks) == [name |-> name, nparams |-> n, blocks |-> blocks]

\* A loop that runs the body twice (counter r, test r + 1, next r + 2).
Loop(r, body, after) ==
  <<B("entry", <<Br(L("body"))>>),
    B("body", <<Phi(r, <<N(0), R(r + 2)>>, <<L("entry"), L("next")>>)>> \o body
                \o <<I("add", r + 2, <<R(r), N(1)>>), I("lt", r + 1, <<R(r + 2), N(2)>>),
                     CBr(R(r + 1), L("next"), L("exit"))>>),
    B("next", <<Br(L("body"))>>),
    B("exit", after)>>

\* g takes one argument and returns a value.
Leaf ==
  { F("g", 1, <<B("entry", <<Ret(<<R(0)>>)>>)>>),
    F("g", 1, <<B("entry", <<I("add", 1, <<R(0), N(1)>>), Ret(<<R(1)>>)>>)>>),
    F("g", 1, <<B("entry", <<CBr(R(0), L("then"), L("else"))>>),
                B("then", <<Ret(<<N(5)>>)>>),
                B("else", <<I("print", NoReg, <<R(0)>>), Ret(<<R(0)>>)>>)>>),
    F("g", 1, Loop(1, <<I("print", NoReg, <<R(0)>>)>>, <<Ret(<<R(1)>>)>>)),
    F("g", 1, <<B("entry", <<Br(L("body"))>>),
                B("body", <<Phi(1, <<N(0), R(2)>>, <<L("entry"), L("next")>>), I("add", 2, <<R(1), R(0)>>),
                            CBr(R(0), L("exit"), L("next"))>>),
                B("next", <<Br(L("body"))>>),
                B("exit", <<Ret(<<R(2)>>)>>)>>),
    F("g", 1, <<B("entry", <<Call(1, "f", <<R(0)>>), Ret(<<R(1)>>)>>)>>) }

\* f takes one argument and calls g, or not.
Middle ==
  { F("f", 1, <<B("entry", <<Call(1, "g", <<R(0)>>), Ret(<<R(1)>>)>>)>>),
    F("f", 1, <<B("entry", <<Call(1, "g", <<N(3)>>), Call(2, "g", <<R(1)>>),
                             I("add", 3, <<R(1), R(2)>>), Ret(<<R(3)>>)>>)>>),
    F("f", 1, Loop(1, <<Call(4, "g", <<R(1)>>), I("print", NoReg, <<R(4)>>)>>, <<Ret(<<R(0)>>)>>)),
    F("f", 1, <<B("entry", <<CBr(R(0), L("then"), L("else"))>>),
                B("then", <<Call(1, "g", <<R(0)>>), Br(L("exit"))>>),
                B("else", <<Br(L("exit"))>>),
                B("exit", <<Phi(2, <<R(1), N(7)>>, <<L("then"), L("else")>>), Ret(<<R(2)>>)>>)>>),
    F("f", 1, <<B("entry", <<I("mul", 1, <<R(0), N(2)>>), Ret(<<R(1)>>)>>)>>),
    F("f", 1, <<B("entry", <<CBr(R(0), L("then"), L("else"))>>),
                B("then", <<Ret(<<N(9)>>)>>),
                B("else", <<Call(1, "f", <<N(1)>>), Ret(<<R(1)>>)>>)>>) }

Mains ==
  { F("main", 0, <<B("entry", <<Call(0, "f", <<N(1)>>), I("print", NoReg, <<R(0)>>), Ret(<<>>)>>)>>),
    F("main", 0, <<B("entry", <<Call(0, "g", <<N(0)>>), Call(1, "f", <<R(0)>>),
                                I("print", NoReg, <<R(1)>>), Ret(<<>>)>>)>>),
    F("main", 0, Loop(0, <<Call(3, "f", <<R(0)>>), I("print", NoReg, <<R(3)>>)>>, <<Ret(<<>>)>>)),
    F("main", 0, Loop(0, <<I("print", NoReg, <<R(0)>>)>>, <<Call(NoReg, "g", <<R(0)>>), Ret(<<>>)>>)) }

InOrders(a, b, c) == {<<a, b, c>>, <<b, a, c>>, <<c, a, b>>, <<c, b, a>>}
Ordinary == UNION {InOrders(g, f, m) : g \in Leaf, f \in Middle, m \in Mains}

\* g takes no argument and keeps a counter; f does not use its arguments.
Unused ==
  UNION {InOrders(F("g", 0, Loop(0, <<I("print", NoReg, <<R(0)>>)>>, <<Ret(<<>>)>>)),
                  F("f", n, <<B("entry", <<Call(NoReg, "g", <<>>), Ret(<<>>)>>)>>),
                  F("main", 0, <<B("entry", <<Call(NoReg, "f", SubSeq(<<N(7), N(8), N(9)>>, 1, n)), Ret(<<>>)>>)>>))
           : n \in 0..3}

MCPrograms == IF UnusedParameters THEN Unused ELSE Ordinary
=============================================================================
