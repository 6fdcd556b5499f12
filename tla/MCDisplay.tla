----------------------------- MODULE MCDisplay -----------------------------
EXTENDS Display

\* Eight bytes of memory, each with bits of its own.
MCMemory(a) == <<129, 18, 52, 64, 3, 96, 255, 8>>[(a % 8) + 1]

\* Channel 0: blocks of one and three bytes, a count above 24 bits; channel 1:
\* one, two or no samples, stopped and restarted; channel 2: no side effects.
MCWrites ==
  [picture |-> {<<0, "cntLo", 3>>, <<0, "cntHi", 256>>, <<0, "sadrLo", 2>>,
                <<0, "en", 1>>},
   frames |-> {<<0, "cntLo", 1>>, <<0, "en", 1>>},
   sound |-> {<<1, "cntLo", 1>>, <<1, "cntLo", 2>>, <<1, "sadrHi", 1>>,
              <<1, "en", 0>>, <<1, "en", 1>>, <<1, "tf", 1>>,
              <<2, "dadrLo", 5>>, <<2, "dadrHi", 1>>}]

\* As sent: page 10, half of a column address each, and data.
MCBytes == [picture |-> {93, 208, 72, 165}, frames |-> {165}, sound |-> {}]

\* Enough for a block sent to a chosen cell, two frames, three transfers.
MCMaxWrites == [picture |-> 5, frames |-> 5, sound |-> 6]
=============================================================================
