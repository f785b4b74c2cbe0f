------------------------------- MODULE MCBoot -------------------------------
(***************************************************************************)
(* Boot for TLC: a machine of 4096 addresses whose halves are 6 bits wide, *)
(* with 1024 bytes of ROM.  The sources are put together from the pieces a *)
(* compiler emits, one or two kinds of data before or after the code, in   *)
(* both modes; and programs of one instruction, right and wrong.           *)
(***************************************************************************)
EXTENDS Boot

Sec(n) == [dir |-> "section", name |-> n]
Lab(n) == [dir |-> "label", name |-> n]
Algn(k) == [dir |-> "align", bytes |-> k]
Lng(a, b, c, d) == [dir |-> "long", data |-> <<a, b, c, d>>, expr |-> NoExpr]
Adr(s, o) == [dir |-> "long", data |-> <<0, 0, 0, 0>>,
              expr |-> [kind |-> "sym", sym |-> s, off |-> o]]
Dat(d, u) == [dir |-> "data", data |-> d, unit |-> u]
Zer(n) == [dir |-> "zero", n |-> n]
Com(n, s, k) == [dir |-> "comm", name |-> n, size |-> s, align |-> k]
Op(p, mn, args) == [dir |-> "ins", ins |-> [prefix |-> p, mnemonic |-> mn, args |-> args]]

R(n) == [kind |-> "R", n |-> n]
SR(n) == [kind |-> "SR", n |-> n]
Num(n) == [kind |-> "num", n |-> n]
Cnd(c) == [kind |-> "cond", cond |-> c]
Ref(k, s, o) == [kind |-> k, sym |-> s, off |-> o]

\* What precedes or follows the code.
Pieces == {
  << >>,
  <<Sec("data"), Algn(4), Lab("t"), Lng(1, 2, 3, 4), Adr("f", 0), Adr("t", 4)>>,
  <<Sec("rodata"), Lab("s"), Dat(<<5, 6, 7, 8, 9>>, 1)>>,
  <<Sec("data"), Algn(2), Lab("h"), Dat(<<10, 11>>, 2), Zer(2)>>,
  <<Sec("data"), Algn(4), Lab("g")>> \o [i \in 1 .. 9 |-> Lng(i, 0, 0, 12)],
  <<Sec("bss"), Algn(4), Lab("z"), Zer(6), Algn(4), Lab("y"), Lng(0, 0, 0, 0)>>,
  <<Sec("bss"), Algn(8), Lab("w"), Zer(3), Dat(<<0>>, 1)>>,
  <<Sec("bss"), Lab("u"), Zer(70), Lab("v"), Zer(1)>>,
  <<Com("c", 6, 4), Com("d", 8, 8)>>,
  <<Sec("text"), Algn(16), Lab("k"), Lng(13, 0, 0, 0), Dat(<<14, 15>>, 1)>>}

Function == <<Sec("text"), [dir |-> "ignored"], Algn(4), Lab("f"),
              Op("none", "NOP", <<>>), Op("none", "HLT", <<>>)>>
Main(kinds, s, o) ==
  <<Sec("text"), Algn(4), Lab("main"),
    Op("H", "LDI", <<R(4), Ref(kinds[1], s, o)>>),
    Op("SLT", "ADI", <<R(4), Ref(kinds[2], s, o)>>),
    Op("INT", "LOD", <<R(4), R(5), Num(0)>>), Op("none", "HLT", <<>>)>>
Explicit == <<"hi", "lo">>
Implied == <<"sym", "sym">>

Names(ls) == {ls[k].name : k \in {i \in DOMAIN ls : ls[i].dir \in {"label", "comm"}}}

\* Two pieces of data around the code, with or without main.
Layouts(a, b, code) == {a \o b \o code, code \o a \o b, a \o code \o b}
Plains == UNION {Layouts(a, b, Function) : a \in Pieces, b \in Pieces}
Mains == UNION {Layouts(a, b, Function \o Main(Explicit, s, 0)) :
                  a \in Pieces, b \in Pieces, s \in {"t", "s", "c", "z"}}
Offsets == UNION {Layouts(a, b, Function \o Main(Implied, s, 4)) :
                    a \in Pieces, b \in Pieces, s \in {"t", "s", "c"}}
IsRef(l) == l.dir = "ins" /\ \E x \in ToSet(l.ins.args) :
              x.kind \in {"hi", "lo", "sym"}
RefsOf(ls) == {x \in UNION {ToSet(ls[k].ins.args) : k \in {i \in DOMAIN ls : IsRef(ls[i])}} :
                 x.kind \in {"hi", "lo", "sym"}}
Closed(ls) == \A x \in RefsOf(ls) : x.sym \in Names(ls)
Sources == {ls \in Plains \union Mains \union Offsets : Closed(ls)}

\* A source that names what it does not define, and one that stops the
\* assembler.
Open == Main(Explicit, "q", 0)
Raising == <<Sec("data"), Lab("r"), Adr("f", 0), [dir |-> "raise"]>>

\* One instruction.
Instructions == {
  Op("SLT", "ADD", <<R(1), R(2), R(3)>>), Op("none", "LSH", <<R(15), R(0), R(7)>>),
  Op("none", "GOF", <<R(9)>>), Op("L", "LDI", <<R(3), Num(HALF - 1)>>),
  Op("H", "LDI", <<R(3), Num(HALF)>>), Op("none", "LDI", <<R(3), Num(-1)>>),
  Op("none", "ADI", <<R(3), Num(-(HALF \div 2))>>),
  Op("none", "ADI", <<R(3), Num(-(HALF \div 2) - 1)>>),
  Op("CHAR", "LOD", <<R(1), R(2), Num(-4)>>), Op("SHORT", "STR", <<R(6), R(5), Num(20)>>),
  Op("INT", "STR", <<R(6), R(5), Num(HALF)>>), Op("INT", "STR", <<R(6), R(5), Num(8)>>),
  Op("none", "LOD", <<R(1), R(2), Num(0)>>),
  Op("none", "BRH", <<Cnd("NOV"), R(4)>>), Op("none", "BRH", <<Cnd("ZZ"), R(4)>>),
  Op("none", "JMP", <<R(11)>>), Op("none", "JMP", <<[kind |-> "other"]>>),
  Op("none", "CAL", <<R(12)>>),
  Op("none", "CYE", <<SR(7), R(2)>>), Op("none", "CYR", <<R(2), SR(7)>>),
  Op("none", "CYR", <<SR(7), R(2)>>), Op("none", "ADD", <<R(1), R(16), R(2)>>),
  Op("none", "ADD", <<R(1), R(2)>>), Op("H", "ADI", <<R(1), Num(1)>>),
  Op("none", "SCL", <<>>), Op("none", "SRT", <<>>), Op("none", "XYZ", <<>>)}
Singles == {<<Lab("main"), i, Op("none", "HLT", <<>>)>> : i \in Instructions}

MCBatches ==
  {<<[lines |-> ls, mode |-> md]>> : ls \in Sources \union Singles, md \in {"rom", "ram"}}
  \union {<<[lines |-> first, mode |-> "rom"], [lines |-> ls, mode |-> "rom"]>> :
            first \in {Open, Raising, Function}, ls \in {p \o Function : p \in Pieces}}
=============================================================================
