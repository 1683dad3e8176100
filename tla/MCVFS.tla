-------------------------------- MODULE MCVFS --------------------------------
(***************************************************************************)
(* VFS over RamFS with DevFS at /dev.  The inputs name the seeded          *)
(* directories /tmp and /home/user and the seeded /etc/hostname, a new     *)
(* name "a" beside and inside them, a device, and spellings with "//" and  *)
(* "/./" that resolve_path must skip.  Every input ends in a plain name    *)
(* that is not a mount point.                                              *)
(***************************************************************************)
EXTENDS VFS

MC_Inputs ==
    { <<"a">>, <<"tmp", "a">>, <<"a", "a">>, <<"tmp", "", "a">>,
      <<"home", ".", "user">>, <<"etc", "hostname">>,
      <<"dev", "null">>, <<"dev", "a">>, <<"tmp">> }

\* The same with the mount point itself: `rm /dev`.
MC_InputsMount == MC_Inputs \cup { <<"dev">> }

\* The same with a trailing slash: `mkdir /tmp/`.
MC_InputsSlash == MC_Inputs \cup { <<"tmp", "">> }

\* Byte strings of one and two bytes, so that a write at offset 0 over a
\* longer file leaves a tail.
MC_Data == { <<"y">>, <<"x", "y">> }
MC_HOSTNAME == <<"h", "h", "h">>
MC_VERSION == <<"v", "v", "v">>
====
