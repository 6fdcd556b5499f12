--------------------------- MODULE MCC33Programs ---------------------------
EXTENDS C33Programs

MCIoKind == (256 :> "sram_wait") @@ (258 :> "flash_wait") @@ (260 :> "plain") @@ (262 :> "bytes")
            @@ (264 :> "ttbr_lo") @@ (266 :> "ttbr_hi") @@ (268 :> "absorb")
MCValues == {0, 1, 2, 5, 2047, 2048, 2049, 4090, 4095}
MCWides == {0, 1, 2048, 4095}
MCExts == {0, 1, 16, 31}
\* Both ends of every region, odd addresses, and the windows of the registers.
MCSpots == {0, 126, 127, 128, 190, 191, 192, 196, 261, 262, 324, 327, 390, 400, 511,
            512, 513, 517, 518, 542, 543, 544, 575, 1024, 1063, 1064, 1070, 1072, 2040}
\* The ends of the regions and of the address space, from both sides, odd
\* pointers, and some of them again with the bit that is not decoded.
MCOperands == {126, 261, 510, 512, 513, 540, 542, 1022, 1070, 1072, 1073, 2042, 2046,
               2048 + 512, 2048 + 538, 2048 + 1072, 4094}
MCWatches == {<<>>, <<[addr |-> 516, size |-> 2, type |-> "rw"]>>,
              <<[addr |-> 519, size |-> 1, type |-> "read"], [addr |-> 512, size |-> 3, type |-> "write"],
                [addr |-> 540, size |-> 8, type |-> "rw"]>>}
=============================================================================
