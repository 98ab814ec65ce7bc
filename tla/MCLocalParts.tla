---- MODULE MCLocalParts ----
EXTENDS LocalParts

CONSTANTS Yes, No   \* labels

\* Two instants and a date.
MCDeadlines ==
    {[dateOnly |-> FALSE, at |-> 6], [dateOnly |-> FALSE, at |-> 9], [dateOnly |-> TRUE, at |-> 1]}

\* Blocks with a question too many, an option too many, twice or without its label, a
\* question without options or without its text, and none.
Menu(choices) == [asks |-> TRUE, options |-> choices]
MCBlocks ==
    {<<>>, <<Menu(<<>>)>>,
     <<Menu(<<Yes, NoLabel, Yes, No>>), Menu(<<>>), Menu(<<No>>)>>,
     <<Menu(<<Yes>>), Menu(<<No, Yes>>)>>,
     <<[Menu(<<Yes>>) EXCEPT !.asks = FALSE], Menu(<<No>>)>>}
====
