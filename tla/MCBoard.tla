------------------------------- MODULE MCBoard -------------------------------
EXTENDS Board

\* Clock: PWRCTL with CLKDT and CLKCHG, P07, the T16 channel 0 and T8 channel
\* 0/1 controls, a bypass, and stores to dummies.  RTC: STOP and RUN, minutes,
\* hour and day.  Periods: STOP, RUN, the watchdog's enable, a slower and a
\* faster CPU clock.  Keys: the key interrupt of port K6.  Lanes: every halfword
\* with a register, as a halfword and as each of its bytes.
Halves == Pairs \cup HighOnly \cup LowOnly \cup {708}
MCStores ==
  [clock |-> {<<384, 1, 64>>, <<384, 2, 4>>, <<385, 1, 64>>, <<721, 1, 0>>,
              <<720, 2, 32768>>, <<326, 2, 2305>>, <<333, 1, 138>>,
              <<324, 1, 7>>, <<324, 2, 2304>>, <<320, 1, 1>>},
   rtc |-> {<<337, 1, 2>>, <<337, 1, 1>>, <<336, 1, 2>>, <<341, 1, 59>>,
            <<342, 2, 5911>>, <<344, 1, 35>>, <<338, 2, 257>>},
   periods |-> {<<337, 1, 2>>, <<337, 1, 1>>, <<369, 1, 2>>, <<369, 1, 0>>,
                <<384, 1, 64>>, <<721, 1, 0>>},
   keys |-> {<<714, 1, 1>>, <<716, 1, 223>>, <<718, 1, 223>>, <<705, 1, 0>>},
   lanes |-> {<<a, 2, 23205>> : a \in Halves}
               \cup {<<a + i, 1, 165>> : a \in Halves, i \in {0, 1}}]

\* B and left on the keyboard, A on the first gamepad and as its raw button 0;
\* B, START and a phantom on the uConsole's joystick.
MCControls == {<<"key", "keyboard", "Z">>, <<"key", "keyboard", "left">>,
               <<"pad", "p1", "east">>, <<"joy", "p1", 0>>,
               <<"joy", "j1", 3>>, <<"joy", "j1", 4>>, <<"joy", "j1", 9>>}

\* The real periods' ratio is that of 1000 to 256; these are small.
MCPeriod == [hz \in CpuClocks |-> IF hz < 4 THEN 1 ELSE (3 * hz) \div 8]
MCNmiPeriod == [hz \in CpuClocks |-> IF hz < 4 THEN 1 ELSE hz \div 4]

\* 2025-01-01, one second before midnight: 9131 days and 86399 seconds.
MCStart == 9132 * 86400 - 1
MCMaxHost == MCStart + 2
MCMaxStores == [clock |-> 3, rtc |-> 4, periods |-> 3, keys |-> 1, lanes |-> 2]

\* These guests stop the clock timer with 2 and run it with 1.
ASSUME MCRtcGuests == RtcGuests
=============================================================================
