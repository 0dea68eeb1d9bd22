------------------------------- MODULE MCBoot -------------------------------
(* Boot on small machines. *)
EXTENDS Boot

Mode(w, h, good) == [width |-> w, height |-> h, rgb |-> good, target |-> <<w, h>> = <<4, 3>>,
                     linear |-> good]

MCScreens ==
    {<< >>, <<Mode(2, 2, TRUE), Mode(5, 4, FALSE), Mode(4, 3, TRUE), Mode(4, 4, TRUE)>>,
     <<Mode(4, 4, TRUE), Mode(2, 2, TRUE), Mode(5, 4, TRUE), Mode(3, 3, TRUE)>>}

Entry(lba, linux, used) == [lba |-> lba, linux |-> linux, used |-> used]

\* Partitions at 1 to 3, and the whole disk at 0.
Tables ==
    {<< >>, <<Entry(1, FALSE, TRUE), Entry(2, TRUE, TRUE)>>,
     <<Entry(3, TRUE, FALSE), Entry(2, TRUE, TRUE), Entry(1, TRUE, TRUE)>>,
     <<Entry(2, TRUE, FALSE), Entry(1, FALSE, TRUE)>>}

MCDisks ==
    [gpt : Tables, mbr : Tables, large : BOOLEAN, ext4 : SUBSET {0, 2, 3}]
=============================================================================
