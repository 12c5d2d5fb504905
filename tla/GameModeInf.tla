---------------------------- MODULE GameModeInf ----------------------------
(***************************************************************************)
(* The byte mModeAndType of a game mode packet (include/packets/           *)
(* GameModeInf.h): the mode in the high half, the kind of update in the    *)
(* low one.  Mode 0 is LEGACY: the packet was made by a client or server   *)
(* that knew no modes, and the mode is guessed from the kind of update.    *)
(***************************************************************************)
EXTENDS Integers

Bytes   == 0 .. 255
Nibbles == 0 .. 15

\* GameMode, as far as the game knows modes; -1 .. 14 have a byte.
NONE == -1
LEGACY == 0
FREEZETAG == 3
GameModes == -1 .. 14

High(b) == b \div 16
updateType(b) == b % 16

\* The mode written into the high half, and the guess for an old packet:
\* kind 3 only exists in Hide & Seek and Sardines (STATE and TIME), 4 and 8
\* only in Freeze-Tag; 1 and 2 are taken for Freeze-Tag if the packet is
\* about somebody else.
writtenMode(b) == ((High(b) + 1) % 16) - 1
gameMode(b, aboutMe) ==
  IF /\ writtenMode(b) = LEGACY
     /\ updateType(b) \in {4, 8} \/ (updateType(b) \in {1, 2} /\ ~aboutMe)
  THEN FREEZETAG ELSE writtenMode(b)

\* (mode << 4) | (byte & 0x0f), kept in a byte.
setGameMode(b, mode) == ((mode % 16) * 16) + updateType(b)
setUpdateType(b, type) == (High(b) * 16) + (type % 16)

\* The byte of a new packet of this mode and kind.
ModeAndType(mode, type) == setUpdateType(setGameMode(0, mode), type)

=============================================================================
