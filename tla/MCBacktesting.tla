--------------------------- MODULE MCBacktesting ---------------------------
(* Model values for Backtesting: the channel of the time, two that carry   *)
(* data, one that nobody listens to.                                       *)
EXTENDS Backtesting

CONSTANTS time, data, idle, signal, clockConsumer, source, strategy, watcher, newcomer, rival

Order == <<time, signal, idle, data>>
All == {clockConsumer, source, strategy, watcher, newcomer, rival}
Listens ==
  [c \in All |-> CASE c = clockConsumer -> time
                  [] c \in {source, newcomer, rival} -> data
                  [] c \in {strategy, watcher} -> signal]
Priorities ==
  [c \in All |-> CASE c \in {clockConsumer, strategy, rival} -> 0
                  [] c = watcher -> 1
                  [] c \in {source, newcomer} -> 2]
Outputs ==
  [c \in All |-> CASE c \in {clockConsumer, strategy} -> {data}
                  [] c = source -> {signal, idle}
                  [] c \in {watcher, newcomer, rival} -> {}]
Newcomers == {newcomer, rival}
Dense == {{}, {1, 2}}
Sparse == {{1, 3}}
=============================================================================
