----------------------------- MODULE MCNpublas -----------------------------
(***************************************************************************)
(* Instance of Npublas for TLC: padding to 2 instead of 4, tiling beyond 4 *)
(* instead of 1024.  The first shape takes the direct path, the second is  *)
(* tiled, and by default its tile has the padded shape of the first.  Two  *)
(* backends: the library of the first makes a device, which only the other *)
(* library can free, and a log, which it frees itself.  Two library loads, *)
(* so that a program can switch, or lose a library and open it again.      *)
(***************************************************************************)
EXTENDS Npublas

MCChoice == {1, 2}
MCHasDeviceCreate == {"Hta"}
MCHasDeviceFree == {"Dsp"}
MCHasLogCreate == {"Hta"}
MCHasLogFree == {"Hta"}
MCMaxLoads == 2
MCQuantum == 2
MCMaxDim == 4
MCKLimit == 0
MCShape == {<<3, 2, 1>>, <<7, 2, 2>>}
MCGlobalSplits == {<<4, 1, Unset>>}
MCKey == {<<4, 2, 2>>, <<2, 2, 2>>}

=============================================================================
