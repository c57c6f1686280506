------------------------------ MODULE PcHeader ------------------------------
(***************************************************************************)
(* PcHeader (src/src/symbol/pc_header.cpp): the version and the size of    *)
(* the pclntab's header, read from the running image of the file.  The     *)
(* object is built by Reader::findModuleData, which then uses neither.     *)
(***************************************************************************)
EXTENDS Integers

CONSTANTS
  PtrSizes,  \* the pointer sizes of the files
  None

Magics == {"MAGIC_112", "MAGIC_116", "MAGIC_118", "MAGIC_120", "other"}

VARIABLES
  ptrSize,  \* mPtrSize
  version,  \* mVersion
  size      \* mSize

vars == <<ptrSize, version, size>>

Init ==
  /\ ptrSize \in PtrSizes
  /\ version = None
  /\ size = 0

(* The magic as it reads in the machine's byte order: that of a file of    *)
(* the other order is none of the known ones.                              *)
Seen(magic, foreign) == IF foreign THEN "other" ELSE magic

VersionOf(magic) ==
  CASE magic = "MAGIC_120" -> <<1, 20>>
    [] magic = "MAGIC_118" -> <<1, 18>>
    [] magic = "MAGIC_116" -> <<1, 16>>
    [] magic = "MAGIC_112" -> <<1, 12>>
    [] OTHER -> <<1, 10>>

SizeOf(magic) ==
  CASE magic \in {"MAGIC_120", "MAGIC_118"} -> 8 + 7 * ptrSize
    [] magic = "MAGIC_116" -> 8 + 6 * ptrSize
    [] OTHER -> 8

(* The constructor parses, once.                                           *)
Parse(magic, foreign) ==
  /\ version = None
  /\ version' = VersionOf(Seen(magic, foreign))
  /\ size' = SizeOf(Seen(magic, foreign))
  /\ UNCHANGED ptrSize

(* The magic cannot be read.                                               *)
ParseUnreadable == version = None /\ UNCHANGED vars

Next ==
  \/ \E magic \in Magics, foreign \in BOOLEAN : Parse(magic, foreign)
  \/ ParseUnreadable

Spec == Init /\ [][Next]_vars

-----------------------------------------------------------------------------
(* Where nfunc ends in the pclntab: SymbolTable reads it, as a pointer     *)
(* wide, behind the first eight bytes.                                     *)
NfuncEnd == 8 + ptrSize

(* The comment on the size of the Go 1.12 header says that it covers       *)
(* "only magic, minLC, ptrSize, nfunc".                                    *)
HeaderCoversNfunc == version = <<1, 12>> => NfuncEnd <= size
=============================================================================
