------------------------------ MODULE MCTrial -------------------------------
(* Instance of Trial for TLC: the baseline, a cheap setting, and one whose *)
(* output the provider may not report.                                     *)
EXTENDS Trial

MCConfigs ==
  [kimi |-> [input |-> 3, output |-> 15, rule |-> "completion"],
   luna |-> [input |-> 1, output |-> 2, rule |-> "completion"],
   grok |-> [input |-> 1, output |-> 2, rule |-> "completion+reasoning"]]

Used(output, reasoning, attempts) ==
  [input |-> 2, output |-> output, reasoning |-> reasoning, attempts |-> attempts]
Round(hits, seconds, call) ==
  [hits |-> hits, seconds |-> <<1, seconds>>, request |-> <<20, 100>>, calls |-> <<call>>]

MCMeasurements ==
  [kimi |-> {Round(<<37, 37>>, 9, Used(1, Unknown, 1)), Round(<<37, 38>>, 3, Used(1, Unknown, 2))},
   luna |-> {Round(<<38, 38>>, 3, Used(1, Unknown, 1)), Round(<<34, 37>>, 3, Used(1, Unknown, 1)),
             Round(<<38, 38>>, 3, Used(1, Unknown, 2))},
   grok |-> {Round(<<38, 38>>, 4, Used(1, 1, 1)), Round(<<38, 38>>, 2, Used(1, Unknown, 1)),
             Round(<<38, 38>>, 12, Used(1, 0, 2))}]
=============================================================================
