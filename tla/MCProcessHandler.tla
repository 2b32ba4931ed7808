-------------------------- MODULE MCProcessHandler --------------------------
(***************************************************************************)
(* Instances of ProcessHandler for TLC: the sets of configurations and of  *)
(* streams the runs explore.                                               *)
(***************************************************************************)
EXTENDS HandlerProperties, TLC

PidSymmetry == Permutations(Pids)

NamesABC == {"a", "b", "c"}

\* Program p is called "a", "b" or "c" by its place in the list.
ByPlace == [p \in Procs |-> IF p = 0 THEN "a" ELSE IF p = 1 THEN "b" ELSE "c"]

\* All of one type, or the first of another type than the rest.
SameTypes == {[p \in Procs |-> t] : t \in ProcessType}
FirstDiffers ==
  {t \in [Procs -> ProcessType] : \A p, q \in Procs \ {0} : t[p] = t[q] /\ t[0] # t[p]}

NoEdges == [p \in Procs |-> {}]
AtMostOneEdge(names) == {NoEdges} \cup {[NoEdges EXCEPT ![p] = {n}] : p \in Procs, n \in names}

Conf(names, types, befores, afters) ==
  [name : names, type : types, before : befores, after : afters]

\* Two programs of one type, the second perhaps of the first one's name, with
\* every order the code honours out of at most one declaration of each kind,
\* the ones on oneself and cycles included; the third program's name is taken.
HonouredPair ==
  {c \in Conf({[n EXCEPT ![2] = DaemonLogger] : n \in {ByPlace, [ByPlace EXCEPT ![1] = "a"]}},
              SameTypes, AtMostOneEdge({"a", "b"}), AtMostOneEdge({"a", "b"})) :
     Honoured(c) /\ c.before[2] = {} /\ c.after[2] = {}}

\* Three oneshot programs, with every order the code honours out of any two
\* declarations that name all three of them.
Declarations == {"before", "after"} \X Procs \X NamesABC
Declared(kind, d, e) == [p \in Procs |-> {x[3] : x \in {y \in {d, e} : y[1] = kind /\ y[2] = p}}]
TwoDeclarations ==
  {<<d, e>> \in Declarations \X Declarations :
     {ByPlace[d[2]], d[3], ByPlace[e[2]], e[3]} = NamesABC}
HonouredThree ==
  {c \in UNION {Conf({ByPlace}, {[p \in Procs |-> "ONESHOT"]},
                     {Declared("before", x[1], x[2])}, {Declared("after", x[1], x[2])}) :
                  x \in TwoDeclarations} : Honoured(c)}

\* Two programs, independent or one declared to come after the other.
HonouredTwo ==
  {c \in Conf({ByPlace}, SameTypes, AtMostOneEdge({"b"}), AtMostOneEdge({"a"})) : Honoured(c)}

\* Nothing is declared: every program starts at once.
Independent == Conf({ByPlace}, SameTypes, {NoEdges}, {NoEdges})

\* A simple program after a oneshot one.
AfterOtherType ==
  Conf({ByPlace}, {[p \in Procs |-> IF p = 0 THEN "ONESHOT" ELSE "SIMPLE"]},
       {NoEdges}, {[NoEdges EXCEPT ![1] = {"a"}]})

\* The second program is to come before the first.
BeforeEarlier ==
  Conf({ByPlace}, SameTypes, {[NoEdges EXCEPT ![1] = {"a"}]}, {NoEdges})

\* b after a, c after b, all simple.
ChainOfThree ==
  Conf({ByPlace}, {[p \in Procs |-> "SIMPLE"]}, {NoEdges},
       {[NoEdges EXCEPT ![1] = {"a"}, ![2] = {"b"}]})

\* a before b, c after b, a of another type than the others.
MixedChain ==
  Conf({ByPlace}, FirstDiffers, {[NoEdges EXCEPT ![0] = {"b"}]}, {[NoEdges EXCEPT ![2] = {"b"}]})

SupervisedConfigs == HonouredPair \cup HonouredThree \cup ChainOfThree \cup MixedChain

\* Two oneshot programs, b after a, and an independent one.
PairAndBystander ==
  Conf({ByPlace}, {[p \in Procs |-> "ONESHOT"]}, {NoEdges}, {[NoEdges EXCEPT ![1] = {"a"}]})

\* Both streams of the first program.
FirstStreams == StreamsOf(0)
OneStream    == {<<0, "STDOUT">>}

=============================================================================
