---------------------------- MODULE MCBoardTests ----------------------------
(***************************************************************************)
(* Instances of BoardTests.                                                 *)
(***************************************************************************)
EXTENDS BoardTests

MCBoards == {"vf610", "s32k", "kv4x", "stm32", "am57xx", "imx6", "linux", "c28x", "m0", "riscv-qemu", "polarfire"}

\* pwmTask at the edges of the period, in it, and late within it.
MCPlaces == {{0}, {300}, {5000}, {10000}, {300, 5000, 19900}}
MCOffsets == {0, 1, 15000}
MCBoth == {TRUE, FALSE}
MCAdc == {0, 50, 100}

\* Both variants of both boards in all combinations, and two DCAN tests.  The tool sends two
\* identifiers the filter lets through and one it does not.
MCPairs ==
    {<<p, q>> : p, q \in {"s32k echo", "kv4x echo", "s32k answer", "kv4x answer"}} \union {<<"dcan", "dcan">>}
MCToolIds == {1, 288, 291}

\* Another core that waits for each answer, that fills one queue, that sends as much as the
\* queues and the task hold (5), one word more, and all at once.
MCAheads == {1, 3, 5, 6, 8}

\* The argument of every reset is 0; the others have all bytes set to each kind of value.
MCBytes == {{bit \in 0 .. 7 : (v \div 2 ^ bit) % 2 = 1} : v \in {0, 1, 128, 170, 255}}
MCArgs == {<<a, b, c, d>> : a, b, c, d \in MCBytes}
=============================================================================
