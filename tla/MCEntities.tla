----------------------------- MODULE MCEntities -----------------------------
(* What the sources of a board may hold.  5000000 thousandths stand for a    *)
(* finite number beyond a tenth of f64::MAX.                                 *)
EXTENDS Entities

MCMeminfo(total, available, swapTotal, swapFree) ==
  [key \in Keys |->
     CASE key = "MemTotal" -> total [] key = "MemAvailable" -> available
       [] key = "SwapTotal" -> swapTotal [] key = "SwapFree" -> swapFree [] OTHER -> 3]

Statvfs(fragment, blocks, free, available) ==
  [fragment |-> fragment, blocks |-> blocks, free |-> free, available |-> available]

MCSourceValues ==
  [usage       |-> {<<>>, <<[busy |-> 0, total |-> 0]>>, <<[busy |-> 2, total |-> 3]>>},
   load        |-> {<<<<0>>, <<1005>>, <<994>>>>, <<<<5>>, <<>>, <<0>>>>, <<<<5000000>>, <<0>>, <<0>>>>},
   temperature |-> {<<>>, <<-1250>>, <<48349>>},
   frequency   |-> {<<>>, <<<<>>, <<600000>>>>, <<<<1500050>>>>},
   meminfo     |-> {MCMeminfo(90, 31, 20, 7), MCMeminfo(90, -1, 0, 0), MCMeminfo(0, 0, 0, 0),
                    MCMeminfo(8, 90, 3, 9)},
   statvfs     |-> {Statvfs(8, 100, 40, 35), Statvfs(8, 3, 4, 0), Statvfs(0, 9, 1, 2)},
   uptime      |-> {<<>>, <<86399999>>, <<2000000000>>},
   throttled   |-> {<<>>, <<{}>>, <<0..3>>, <<16..19>>} \cup {<<{b}>> : b \in {0, 1, 2, 3, 16, 17, 18, 19}}]

MCFirstBoard ==
  [usage |-> <<[busy |-> 2, total |-> 3]>>, load |-> <<<<0>>, <<1005>>, <<994>>>>,
   temperature |-> <<48349>>, frequency |-> <<<<1500050>>>>, meminfo |-> MCMeminfo(90, 31, 20, 7),
   statvfs |-> Statvfs(8, 100, 40, 35), uptime |-> <<86399999>>, throttled |-> <<{}>>]
=============================================================================
