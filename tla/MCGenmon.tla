------------------------------ MODULE MCGenmon -------------------------------
\* Genmon for TLC: rows of idle percentages, memory on both sides of the limits,
\* commands that print nothing, too little, or what the formats do not expect.
EXTENDS Genmon

MCReading ==
  [l \in Line |->
     CASE l = Cpu -> {<<40, 30, 90, 0, 70, 60, 20, 80, 50>>, <<99, 100, 5, 99, 5, 60, 50, 40, 30>>}
       [] l = Ram -> {<<19>>, <<20>>, <<600>>}
       [] l = Temps[1] -> {<<-50>>, <<620>>}
       [] l \in ToSet(Temps) -> {<<410>>}
       [] l = Time -> {<<10>>}
       [] l = Gpu -> {<<4>>}
       [] OTHER -> {<<80>>}]

\* The tokens of a line of kinds, the numbers being n.
MCLine(name, row, kinds, n) ==
  [c \in DOMAIN kinds |-> [kind |-> kinds[c], n |-> n[c], from |-> <<name, row, c>>]] \o <<Newline>>

MCNvidia ==
  {<<>>} \cup {[c \in 1 .. count |-> Number(n, <<"nvidia", c>>)] : count \in {4, 9}, n \in {0, 800, 2000}}

MCMeminfo ==
  {FlattenSeq([r \in 1 .. n |->
      MCLine("meminfo", r, <<"word", "number", "word">>, <<0, 100, 0>>)]) : n \in {0, 5}}

MCSwap ==
  {<<>>} \cup {MCLine("swap", 1, <<"word", "number", "number">>, <<0, total, used>>) :
                 total \in {0, 1000, IntValues, IntValues - 1, IntValues + 500}, used \in {0, 100, 900}}

\* Lines of df: sizes and bare zeros, mount points of one or two words and of
\* digits, and file systems without a percentage.
MCDfKinds == {
  <<"size", "number", "word", "word">>,
  <<"number", "number", "word", "word", "word">>,
  <<"size", "dash", "word", "word">>,
  <<"size", "dash", "word", "number">>,
  <<"size", "dash", "word", "word", "word">> }

MCDf ==
  UNION {{FlattenSeq([r \in 1 .. n |-> MCLine("df", r, kinds[r], <<10, 45, 0, 2, 0>>)]) :
             kinds \in [1 .. n -> MCDfKinds]} : n \in 0 .. 3}
=============================================================================
