------------------------- MODULE MCWorldSupervisor -------------------------
(* Instances of WorldSupervisor for TLC. *)
EXTENDS WorldSupervisorProperties, TLC

ProcessFaults == {"crash", "signal", "reboot"}
CrashOnly == {"crash"}
ArchiveFaults == {"crash", "archive", "publish"}
AllFaults == ProcessFaults \cup {"archive", "publish"}
PublishFaults == {"publish"}

FiveSeeds == 1..5
EightSeeds == 1..8
=============================================================================
