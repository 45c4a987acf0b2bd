------------------------------ MODULE MCScope ------------------------------
(* Scope over a small repository: x.py, notes and a directory d in s,      *)
(* which may also be a file, x.py, Makefile and a link l at the root, and  *)
(* the commands that tell the rules apart.                                 *)
EXTENDS ReadSet

CONSTANTS c1, c2, a1, b1

ScopeFiles == {<<"x.py">>, <<"s", "x.py">>, <<"s", "notes">>, <<"Makefile">>, <<"s">>,
               <<"s", "d", "y">>, <<"l">>}

(* The content c2 of x.py at the root is a link to s/x.py, that of l one   *)
(* to s.                                                                   *)
MCLinks == {c2}
MCLeads == [c \in Contents |-> IF c = c2 THEN {<<"s", "x.py">>} ELSE {}]
InS == {<<"s", "x.py">>, <<"s", "notes">>, <<"s", "d", "y">>}

(* A project with tests, for tier 2.  The test a1 imports x.py and p/x.py  *)
(* and opens rates; b1 imports n.py, p/x.py, a module in venv and k/x.py,  *)
(* where k may be a link.  The worktree differs a little from one that     *)
(* suits the question.                                                     *)
TestA == <<"s", "test_a.py">>
Mod == <<"p", "x.py">>
Other == <<"p", "n.py">>
Rates == <<"rates">>
Venv == <<"venv", "v.py">>
Link == <<"k">>
TestFiles == {TestA, Mod, Other, Venv, Link, <<"s", "x.py">>, <<"x.py">>, <<"s", "conftest.py">>, Rates}
Plain ==
  TestA :> a1 @@ Mod :> c1 @@ Rates :> c1 @@ [f \in TestFiles \ {TestA, Mod, Rates} |-> Absent]
MCFiles == ScopeFiles \cup TestFiles
MCDirs == {<<>>, <<"s">>, <<"s", "d">>}
Spread(t) == [f \in MCFiles |-> IF f \in DOMAIN t THEN t[f] ELSE Absent]
Around(t, files) ==
  {Spread(t)} \cup {Spread([t EXCEPT ![f] = c]) : f \in files, c \in {c1, c2, Absent}}

(* Not every combination tells more: the trees with a link at x.py, with   *)
(* another Makefile, with d, with l and with a file at s are variants of a *)
(* few.                                                                    *)
ScopeTrees ==
  {Spread(t) : t \in
     {t \in [ScopeFiles -> {c1, c2, Absent}] :
        /\ t[<<"Makefile">>] # Absent
        /\ \A f \in {<<"s">>} \cup InS : t[f] # c2
        /\ t[<<"Makefile">>] = c2 => t[<<"x.py">>] = c1 /\ {f \in InS : t[f] = c1} = {<<"s", "x.py">>}
        /\ t[<<"x.py">>] # c1 => t[<<"s", "notes">>] = Absent
        /\ t[<<"s", "d", "y">>] = c1 => t[<<"x.py">>] = c1 /\ t[<<"s", "notes">>] = Absent
        /\ t[<<"l">>] # Absent => t[<<"l">>] = c2 /\ t[<<"x.py">>] = c1 /\ t[<<"Makefile">>] = c1
                                  /\ t[<<"s", "notes">>] = Absent /\ t[<<"s", "d", "y">>] = Absent
        /\ t[<<"s">>] # Absent => t[<<"x.py">>] = c1 /\ \A f \in InS : t[f] = Absent}}

MCImports == [c \in Contents |-> IF c = a1 THEN {<<"x.py">>, Mod}
                                   ELSE IF c = b1 THEN {<<"n.py">>, Mod, Venv, <<"k", "x.py">>} ELSE {}]
MCOpens == [c \in Contents |-> IF c = a1 THEN {Rates} ELSE {}]

Text(kind, up, names, slash) ==
  [kind |-> kind, up |-> up, names |-> names, slash |-> slash, also |-> {}]
Arg(names) == Text("path", 0, names, Len(names) > 1)
Up(names) == Text("path", 1, names, names # <<>>)
Flag(kind, names) == Text(kind, 0, names, FALSE)
Odd == Text("odd", 0, <<>>, FALSE)
Run(head, words) == [head |-> head, piped |-> FALSE, words |-> words, also |-> {}]
Pipe(head, words) == [Run(head, words) EXCEPT !.piped = TRUE]
Below(names) == {[up |-> 0, names |-> names]}
At(dir, segments) == [cwd |-> dir, cmd |-> segments]

X == Arg(<<"x.py">>)
S == Arg(<<"s">>)
Notes == Arg(<<"notes">>)

ScopeQuestions ==
  {At(<<>>, <<Run("cat", <<X>>)>>),
   At(<<>>, <<Run("diff", <<X, S>>)>>),
   At(<<>>, <<Run("wc", <<Flag("flag", <<>>), Arg(<<"s", "x.py">>)>>), Pipe("grep", <<Notes>>)>>),
   At(<<>>, <<Run("cat", <<X>>), Run("pytest", <<S>>)>>),
   At(<<>>, <<Run("cat", <<X, Odd>>)>>),
   At(<<"s">>, <<Run("cd", <<Arg(<<"d">>)>>), Run("cat", <<X>>)>>),
   At(<<"s">>, <<Run("cat", <<Notes, Up(<<"x.py">>)>>)>>),
   At(<<"s">>, <<Run("cd", <<Arg(<<"d">>)>>), Run("cat", <<Up(<<"x.py">>)>>)>>),
   At(<<"s">>, <<Run("file", <<Flag("value", <<"notes">>), X>>)>>),
   \* PATH=s/d cat x.py; cat d/../x.py; cat l/x.py; cd s; cd d; cat x.py
   At(<<>>, <<[Run("cat", <<X>>) EXCEPT !.also = Below(<<"s", "d">>)]>>),
   At(<<"s">>, <<Run("cat", <<[X EXCEPT !.slash = TRUE, !.also = Below(<<"d">>)]>>)>>),
   At(<<>>, <<Run("cat", <<Arg(<<"l", "x.py">>)>>)>>),
   At(<<>>, <<Run("cd", <<S>>), Run("cd", <<Arg(<<"d">>)>>), Run("cat", <<X>>)>>)}

Session(words) == Run("pytest", words)
TestWorlds ==
  At(<<>>, <<Session(<<S>>)>>) :> Around(Plain, TestFiles \ {TestA}) @@
  At(<<>>, <<Session(<<Arg(Mod)>>)>>) :>
    Around([Plain EXCEPT ![Mod] = b1], {Other}) @@
  At(<<"s">>, <<Session(<<>>)>>) :>
    Around([Plain EXCEPT ![TestA] = b1, ![<<"s", "x.py">>] = c1], {Mod, Venv, Link}) @@
  At(<<>>, <<Session(<<S>>), Session(<<X>>)>>) :>
    Around([Plain EXCEPT ![<<"s", "x.py">>] = c1], {<<"x.py">>}) @@
  At(<<>>, <<Session(<<S>>), Run("cat", <<Arg(Other)>>)>>) :> Around(Plain, {Other})

MCQuestions == ScopeQuestions \cup DOMAIN TestWorlds
MCWorlds ==
  [q \in Questions |-> IF q \in ScopeQuestions THEN ScopeTrees ELSE TestWorlds[q]]
MCTrees == ScopeTrees \cup UNION Range(TestWorlds)
=============================================================================
