--------------------------- MODULE MC_MacAnnounce ---------------------------
(* An AGWPE port and one KISS port; stdin, stdout and stderr are open when  *)
(* dns_sd_announce runs, and the table has room for both service sockets    *)
(* and the pipe, or for fewer once another thread has opened a descriptor.  *)
EXTENDS MacAnnounce

MC_NKiss == 1
MC_Chans == {0}
MC_MaxFd == 6
MC_InitOther == {0, 1, 2}
MC_MaxEvents == 2
MC_MaxChurn == 2
MC_KeptOpen == {0, 1, 2}

\* One descriptor fewer: with both services registered pipe() fails.
MC_SmallMaxFd == 5
\* No churn.
MC_NoChurn == 0
\* Other threads close two descriptors; one more is open at the start.
MC_ChurnTwo == 2
MC_BusyOther == {0, 1, 2, 3}
\* The program was started with stdin closed.
MC_NoStdin == {1, 2}
MC_NoStdinKept == {1, 2}
=============================================================================
