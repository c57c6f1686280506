---------------------------- MODULE SymbolFind ----------------------------
(***************************************************************************)
(* SymbolTable::find (src/src/symbol/symbol.cpp), by address and by name.  *)
(* The code of SymbolTable and of seek::SymbolTable is the same text over  *)
(* iterators that count rows of the function table; the entries of both    *)
(* are in memory.  They differ in the names: seek::Symbol::name reads the  *)
(* stream that the table shares with its symbols, and once that stream has *)
(* failed every name is empty.                                             *)
(*                                                                         *)
(* The function table has one row per function, sorted by entry, and one   *)
(* row more whose entry is the end of the last function: find reads it as  *)
(* operator[](mFuncNum) and searches up to end() + 1.  std::upper_bound is *)
(* the binary search of the C++ library; its probes read rows of the table *)
(* and are steps here.                                                     *)
(***************************************************************************)
EXTENDS Integers

CONSTANTS
  Tables,     \* the function tables a file may hold
  Addresses,  \* the addresses a caller may look up
  Names       \* the names of functions, and those a caller may look up

(* mFuncNum functions; the base plus each row's entry; each row's name.    *)
IsTable(t) ==
  /\ t.funcNum \in Nat
  /\ t.entry \in [0..t.funcNum -> Nat]
  /\ t.name \in [0..(t.funcNum - 1) -> Names]

Sorted(t) ==
  \A i, j \in 0..t.funcNum : i <= j => t.entry[i] <= t.entry[j]

ASSUME AddressesAssumption == Addresses \subseteq Nat
ASSUME TablesAssumption == \A t \in Tables : IsTable(t) /\ Sorted(t)

VARIABLES
  table,  \* the function table, fixed when the SymbolTable is built
  stream, \* "none" in memory; a seek table's is "good", or for good "failed"
  op,     \* "idle", or the search in progress: "address" or "name"
  key,    \* the address looked up
  wanted, \* the name looked up
  first,  \* first row not yet searched
  len,    \* number of rows not yet searched
  ans     \* row of the iterator the last search returned; end() is funcNum

findVars == <<table, stream, op, key, wanted, first, len, ans>>

End == table.funcNum
Rows == 0..table.funcNum

FindTypeOK ==
  /\ table \in Tables
  /\ stream \in {"none", "good", "failed"}
  /\ op \in {"idle", "address", "name"}
  /\ key \in Nat /\ wanted \in Names
  /\ first \in Nat /\ len \in Nat
  /\ ans \in Nat

(* Opening the table may have failed its stream already.                   *)
FindInit ==
  /\ table \in Tables
  /\ stream \in {"none", "good", "failed"}
  /\ op = "idle"
  /\ key = 0 /\ wanted \in Names
  /\ first = 0 /\ len = 0
  /\ ans = table.funcNum

(* Mutants: an address past the last function is not refused; the first    *)
(* function's own entry is.                                                *)
OutsideLow(a) == a < table.entry[0]
OutsideFirst(a) == a <= table.entry[0] \/ a >= table.entry[End]

(* The check in front of the search: below the first row's entry, or not   *)
(* below the entry of the row behind the last function.                    *)
Outside(a) == a < table.entry[0] \/ a >= table.entry[End]

Return(row) ==
  /\ op' = "idle"
  /\ ans' = row
  /\ first' = 0 /\ len' = 0

FindNothing(a) ==
  /\ op = "idle"
  /\ Outside(a)
  /\ key' = a
  /\ Return(End)
  /\ UNCHANGED <<table, stream, wanted>>

(* Mutant: the search has one row too many.                                *)
FindAddressWide(a) ==
  /\ op = "idle"
  /\ ~Outside(a)
  /\ op' = "address" /\ key' = a
  /\ first' = 0 /\ len' = End + 2
  /\ UNCHANGED <<table, stream, wanted, ans>>

(* upper_bound(begin(), end() + 1, address).                               *)
FindAddress(a) ==
  /\ op = "idle"
  /\ ~Outside(a)
  /\ op' = "address" /\ key' = a
  /\ first' = 0 /\ len' = End + 1
  /\ UNCHANGED <<table, stream, wanted, ans>>

(* A call between two searches, on a symbol of this table, whose window of *)
(* 1024 bytes meets the end of the file.                                   *)
LoseStream ==
  /\ op = "idle" /\ stream = "good"
  /\ stream' = "failed"
  /\ UNCHANGED <<table, op, key, wanted, first, len, ans>>

FindName(n) ==
  /\ op = "idle"
  /\ op' = "name" /\ wanted' = n
  /\ first' = 0 /\ len' = End
  /\ UNCHANGED <<table, stream, key, ans>>

Half == len \div 2
Middle == first + Half

(* Mutant: the row probed stays in the range.                              *)
GoRightStuck ==
  /\ op = "address" /\ len > 0
  /\ table.entry[Middle] <= key
  /\ first' = Middle
  /\ len' = len - Half
  /\ UNCHANGED <<table, stream, op, key, wanted, ans>>

GoLeft ==
  /\ op = "address" /\ len > 0
  /\ key < table.entry[Middle]
  /\ len' = Half
  /\ UNCHANGED <<table, stream, op, key, wanted, first, ans>>

GoRight ==
  /\ op = "address" /\ len > 0
  /\ table.entry[Middle] <= key
  /\ first' = Middle + 1
  /\ len' = len - Half - 1
  /\ UNCHANGED <<table, stream, op, key, wanted, ans>>

(* upper_bound(...) - 1.                                                   *)
AddressFound ==
  /\ op = "address" /\ len = 0
  /\ Return(first - 1)
  /\ UNCHANGED <<table, stream, key, wanted>>

(* What name() gives where nothing can be read.                            *)
NoName == ""

(* entry.symbol().name(): getline leaves the string empty on a failed      *)
(* stream.  Reading a name of the linker's ends at its zero and fails      *)
(* nothing itself.                                                         *)
NameRead(row) == IF stream = "failed" THEN NoName ELSE table.name[row]

(* Mutant: the comparison of names is dropped.                             *)
NextNameAny ==
  /\ op = "name" /\ len > 0
  /\ first' = first + 1 /\ len' = len - 1
  /\ UNCHANGED <<table, stream, op, key, wanted, ans>>

(* find_if: one row after the other until the name matches.                *)
NextName ==
  /\ op = "name" /\ len > 0
  /\ NameRead(first) # wanted
  /\ first' = first + 1 /\ len' = len - 1
  /\ UNCHANGED <<table, stream, op, key, wanted, ans>>

NameFound ==
  /\ op = "name" /\ len > 0
  /\ NameRead(first) = wanted
  /\ Return(first)
  /\ UNCHANGED <<table, stream, key, wanted>>

NameMissing ==
  /\ op = "name" /\ len = 0
  /\ Return(first)
  /\ UNCHANGED <<table, stream, key, wanted>>

Search == GoLeft \/ GoRight \/ AddressFound \/ NextName \/ NameFound \/ NameMissing

FindNext ==
  \/ \E a \in Addresses : FindNothing(a) \/ FindAddress(a)
  \/ \E n \in Names : FindName(n)
  \/ LoseStream
  \/ Search

FindSpec == FindInit /\ [][FindNext]_findVars

(* Both searches are plain loops: once entered they keep running.          *)
FairFindSpec == FindSpec /\ WF_findVars(Search)

-----------------------------------------------------------------------------
(* The function that covers an address: its entry is not above it and the  *)
(* next row's entry is.  Rows that share an entry cover nothing but the    *)
(* last of them.                                                           *)
Covers(row, a) ==
  /\ row \in 0..(End - 1)
  /\ table.entry[row] <= a /\ a < table.entry[row + 1]

(* While find(address) runs, the covering row is never cut off: the rows   *)
(* before the ones left are not above the address, those behind are.  The  *)
(* first row and the row of the end bound the search from both sides.      *)
Bracket ==
  op = "address" =>
    /\ ~Outside(key)
    /\ first + len <= End + 1
    /\ first > 0 => table.entry[first - 1] <= key
    /\ first + len <= End => key < table.entry[first + len]

(* The searches dereference no iterator outside the table: find(address)   *)
(* reads the end row at most, find(name) only functions.                   *)
ProbesInTable ==
  /\ op = "address" /\ len > 0 => Middle \in Rows
  /\ op = "name" /\ len > 0 => first \in 0..(End - 1)

(* find(address) returns the covering function, and end() when there is    *)
(* none: below the first entry, above the last, in an empty table, and     *)
(* where functions share an entry.                                         *)
FindsCovering ==
  [][op = "address" /\ op' = "idle" => Covers(ans', key)]_findVars

RefusesUncovered ==
  [][op = "idle" /\ op' = "idle" /\ stream' = stream =>
       ans' = End /\ \A row \in 0..(End - 1) : ~Covers(row, key')]_findVars

(* find(name) returns the first function of that name, or end().  Where    *)
(* the stream has failed, at whatever time before, it finds no name the    *)
(* caller can want: an existing function is missed with end(), and only    *)
(* the empty name gets a row, the first, whatever that row's function is.  *)
FindsFirstName ==
  [][op = "name" /\ op' = "idle" =>
       IF stream = "failed"
       THEN ans' = IF wanted = NoName THEN 0 ELSE End
       ELSE /\ \A row \in 0..(ans' - 1) : table.name[row] # wanted
            /\ ans' = End \/ (ans' < End /\ table.name[ans'] = wanted)]_findVars

(* Every search returns.                                                   *)
Answers == op # "idle" ~> op = "idle"
=============================================================================
