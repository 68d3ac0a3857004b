------------------------------ MODULE JsonFile ------------------------------
(***************************************************************************)
(* The text of bank.json: save_data and the write_... functions that make  *)
(* it, load_data and the read_... functions that take it apart, as in      *)
(* server/dto_persistence.h and dto_json.h (bank_persistence.c repeats     *)
(* them).  BankPersistence says what a load makes of a file; here the      *)
(* reader goes through the text, one field at a time and a name one        *)
(* character at a time, and is to come to the same.                        *)
(*                                                                         *)
(* Keys, integers and the letter of a transaction are one token each, all  *)
(* else is characters.  White space, which the reader skips wherever it    *)
(* may be, is left out, and so are nat_id, the account type and the times, *)
(* which are written and read as name and pin are.  A file may end         *)
(* anywhere after the header, which goes out with the first stream buffer. *)
(* Names are sequences of bytes.                                           *)
(***************************************************************************)
EXTENDS BankPersistence, FiniteSets, SequencesExt

CONSTANTS
    Heaps,      \* the globals at the first save
    NameSize    \* sizeof(a->name): 40

\* A name is a C string that fits its field.
Name == {s \in Seq(1 .. 255) : Len(s) < NameSize}

NamedAccount == [number : Nat, pin : Nat, name : Name, balance : CInt,
                 last : [Ring -> Tran], ntran : Nat]

\* Globals a running program can have: what unused slots hold does not matter.
Saveable(h) ==
    /\ h.accounts_in_use \in 0 .. MAX_ACCTS /\ h.next_number \in Nat
    /\ \A j \in LiveSlots(h) : h.bank[j] \in NamedAccount

ASSUME JsonAssumption == NameSize \in Nat \ {0} /\ \A h \in Heaps : Saveable(h)

VARIABLES
    saved,   \* the globals that were saved
    text,    \* bank.json
    pos,     \* next token
    at,      \* what load_data reads next
    field,   \* which of its fields
    slot,    \* account being read
    trans_read,
    name,    \* the name read so far
    heap,    \* the globals of the new process
    trip     \* 1, or 2: what the first load made of it, saved and loaded again

vars == <<saved, text, pos, at, field, slot, trans_read, name, heap, trip>>

-----------------------------------------------------------------------------
(* Writing.                                                                *)

Quote      == 34
Comma      == 44
Colon      == 58
Backslash  == 92
Bracket    == 91
EndBracket == 93
Brace      == 123
EndBrace   == 125

Char(b)   == <<"char", b>>
Key(word) == <<"key", word>>
Num(v)    == <<"int", v>>
Letter(c) == <<"letter", c>>

\* \b \t \n \f \r: the characters with a letter of their own.
Short == [b \in {8, 9, 10, 12, 13} |->
             CASE b = 8 -> 98 [] b = 9 -> 116 [] b = 10 -> 110 [] b = 12 -> 102 [] b = 13 -> 114]

HexDigit(d) == IF d < 10 THEN 48 + d ELSE 87 + d

\* %04x of a char that is less than 32.  char is signed: from 128 on it is a
\* negative int, which has eight digits.
Hex(b) ==
    (IF b < 128 THEN <<48, 48>> ELSE [d \in 1 .. 6 |-> HexDigit(15)])
        \o <<HexDigit(b \div 16), HexDigit(b % 16)>>

\* mutant: every character goes out as it is.
EscapedRaw(b) == <<b>>

\* mutant: a backslash is escaped once more than it is read.
EscapedTwice(b) ==
    CASE b = Backslash -> <<Backslash, b, Backslash, b>>
      [] b = Quote -> <<Backslash, b>>
      [] OTHER -> <<b>>

\* What one byte of a name becomes between the quotes.
Escaped(b) ==
    CASE b \in {Backslash, Quote} -> <<Backslash, b>>
      [] b \in DOMAIN Short -> <<Backslash, Short[b]>>
      [] b \notin DOMAIN Short /\ (b < 32 \/ b >= 128) -> <<Backslash, 117>> \o Hex(b)
      [] OTHER -> <<b>>

Chars(bytes) == [j \in DOMAIN bytes |-> Char(bytes[j])]

write_json_string(s) ==
    Chars(<<Quote>> \o FlattenSeq([j \in DOMAIN s |-> Escaped(s[j])]) \o <<Quote>>)

Member(word, value) == Chars(<<Comma>>) \o <<Key(word), Char(Colon)>> \o value

\* The first member of an object has no comma before it.
Object(members) == Chars(<<Brace>>) \o Tail(FlattenSeq(members)) \o Chars(<<EndBrace>>)

\* The elements of an array, with commas between them and the closing bracket.
Elements(objects) ==
    FlattenSeq([j \in DOMAIN objects |->
                    IF j = 1 THEN objects[j] ELSE Chars(<<Comma>>) \o objects[j]])

write_transaction_json(tran) ==
    Object(<<Member("type", <<Letter(tran.type)>>),
             Member("amount", <<Num(tran.amount)>>),
             Member("balance_after", <<Num(tran.balance_after)>>)>>)

write_account_json(a) ==
    LET trans == Kept(a)
    IN  Object(<<Member("number", <<Num(a.number)>>),
                 Member("pin", <<Num(a.pin)>>),
                 Member("name", write_json_string(a.name)),
                 Member("balance", <<Num(a.balance)>>),
                 Member("ntran", <<Num(a.ntran)>>),
                 Member("last", Chars(<<Bracket>>)
                     \o Elements([j \in DOMAIN trans |-> write_transaction_json(trans[j])])
                     \o Chars(<<EndBracket>>))>>)

\* The text up to the end of account n.
TextTo(h, n) ==
    Chars(<<Brace>>)
        \o Tail(Member("version", <<Num(1)>>)
                 \o Member("accounts_in_use", <<Num(h.accounts_in_use)>>)
                 \o Member("next_number", <<Num(h.next_number)>>)
                 \o Member("accounts", Chars(<<Bracket>>)))
        \o Elements([j \in 1 .. n |-> write_account_json(h.bank[j - 1])])

save_data(h) == TextTo(h, h.accounts_in_use) \o Chars(<<EndBracket, EndBrace>>)

-----------------------------------------------------------------------------
(* Reading.                                                                *)

HeaderFields  == <<"version", "accounts_in_use", "next_number", "accounts">>
AccountFields == <<"number", "pin", "name", "balance", "ntran", "last">>
TranFields    == <<"type", "amount", "balance_after">>

Is(p, token) == p \in DOMAIN text /\ text[p] = token

\* skip_to_char: the place after the next b, 0 if there is none.
SkipTo(p, b) ==
    LET found == {q \in p .. Len(text) : text[q] = Char(b)}
    IN  IF found = {} THEN 0 ELSE Min(found) + 1

\* The place of the value of field k: after a comma unless it is the first,
\* and the key.  0 if it is not there, or the file ends before it.
ValueAt(fields, k) ==
    LET p == IF k = 1 THEN pos ELSE SkipTo(pos, Comma)
    IN  IF p # 0 /\ Is(p, Key(fields[k])) /\ Is(p + 1, Char(Colon)) /\ p + 2 <= Len(text)
        THEN p + 2 ELSE 0

\* A save may be cut short by the end of its process, as long as the first
\* buffer is not full, or anywhere from the array on.
Cuts(h) == {0} \cup Len(TextTo(h, 0)) .. Len(save_data(h))

Init ==
    /\ saved \in Heaps
    /\ \E n \in Cuts(saved) : text = SubSeq(save_data(saved), 1, n)
    /\ trip = 1
    /\ heap = FreshHeap
    /\ pos = 1 /\ at = "brace" /\ field = 1
    /\ slot = 0 /\ trans_read = 0 /\ name = << >>

\* load_data returns, with n accounts.
Stop(n) ==
    /\ at' = "done"
    /\ heap' = [heap EXCEPT !.accounts_in_use = n]
    /\ UNCHANGED <<saved, text, pos, field, slot, trans_read, name, trip>>

\* Reading goes on at place p.
Goes(state, k, p) ==
    /\ at' = state /\ field' = k /\ pos' = p
    /\ UNCHANGED <<saved, text, trip>>

OpeningBrace ==
    /\ at = "brace"
    /\ IF Is(pos, Char(Brace))
       THEN Goes("header", 1, 2) /\ UNCHANGED <<slot, trans_read, name, heap>>
       ELSE Stop(heap.accounts_in_use)

Header ==
    LET v == ValueAt(HeaderFields, field)
    IN  /\ at = "header"
        /\ IF v = 0 THEN Stop(heap.accounts_in_use)
           ELSE /\ Goes(IF field = 4 THEN "account" ELSE "header", field + 1, v + 1)
                /\ heap' = CASE field = 2 -> [heap EXCEPT !.accounts_in_use = text[v][2]]
                             [] field = 3 -> [heap EXCEPT !.next_number = text[v][2]]
                             [] OTHER -> heap
                /\ UNCHANGED <<slot, trans_read, name>>

NextAccount ==
    /\ at = "account"
    /\ IF slot < heap.accounts_in_use /\ Is(pos, Char(Brace))
       THEN Goes("field", 1, pos + 1) /\ UNCHANGED <<slot, trans_read, name, heap>>
       ELSE Stop(slot)

Field ==
    LET v == ValueAt(AccountFields, field)
        Stored(h) == CASE field = 1 -> [h EXCEPT !.bank[slot].number = text[v][2]]
                       [] field = 2 -> [h EXCEPT !.bank[slot].pin = text[v][2]]
                       [] field = 4 -> [h EXCEPT !.bank[slot].balance = text[v][2]]
                       [] field = 5 -> [h EXCEPT !.bank[slot].ntran = text[v][2]]
                       [] OTHER -> h
    IN  /\ at = "field"
        /\ IF v = 0 THEN Stop(slot)
           ELSE /\ Goes(CASE field = 3 -> "name" [] field = 6 -> "array" [] OTHER -> "field",
                        field + 1, v + 1)
                /\ heap' = Stored(heap)
                /\ name' = << >> /\ trans_read' = 0
                /\ UNCHANGED slot

\* mutant: the size of the buffer is not looked at.
PutUnchecked(b) == name' = Append(name, b)

\* buffer[pos++] = b, if there is room.
Put(b) == name' = IF Len(name) < NameSize - 1 THEN Append(name, b) ELSE name

\* The byte the four digits after \u say, if it is one.
Spelled(digits) ==
    LET Value(c) == IF c < 58 THEN c - 48 ELSE c - 87
    IN  4096 * Value(digits[1]) + 256 * Value(digits[2]) + 16 * Value(digits[3]) + Value(digits[4])

Unescaped(c) == IF c \in {Short[b] : b \in DOMAIN Short}
                THEN CHOOSE b \in DOMAIN Short : Short[b] = c ELSE c

\* read_json_string, a character or an escape at a time.
NameChar ==
    LET left == Len(text) - pos + 1       \* characters that are there
        c == text[pos][2]
        e == text[pos + 1][2]
    IN  /\ at = "name"
        /\ IF left = 0 \/ (c = Backslash /\ left < 2)
           THEN Stop(slot)
           ELSE IF c = Quote
           THEN /\ Goes("field", field, pos + 1)
                /\ heap' = [heap EXCEPT !.bank[slot].name = name]
                /\ UNCHANGED <<slot, trans_read, name>>
           ELSE IF c # Backslash
           THEN Goes("name", field, pos + 1) /\ Put(c) /\ UNCHANGED <<slot, trans_read, heap>>
           ELSE IF e # 117
           THEN Goes("name", field, pos + 2) /\ Put(Unescaped(e)) /\ UNCHANGED <<slot, trans_read, heap>>
           ELSE IF left < 6
           THEN Stop(slot)
           ELSE /\ Goes("name", field, pos + 6)
                /\ LET v == Spelled([d \in 1 .. 4 |-> text[pos + 1 + d][2]])
                   IN  IF v < 256 THEN Put(v) ELSE UNCHANGED name
                /\ UNCHANGED <<slot, trans_read, heap>>

\* The loop over the transactions, up to the bracket or TRANS_KEEP of them;
\* the character it ends at is used up.
Array ==
    /\ at = "array"
    /\ IF Is(pos, Char(EndBracket)) \/ trans_read = TRANS_KEEP
       THEN Goes("closing", field, pos + 1) /\ UNCHANGED <<slot, trans_read, name, heap>>
       ELSE IF Is(pos, Char(Brace))
       THEN Goes("tran", 1, pos + 1) /\ UNCHANGED <<slot, trans_read, name, heap>>
       ELSE Stop(slot)

Transaction ==
    LET v == ValueAt(TranFields, field)
        end == SkipTo(v + 1, EndBrace)
        Stored(h) == [h EXCEPT !.bank[slot].last[trans_read] =
                         CASE field = 1 -> [@ EXCEPT !.type = text[v][2]]
                           [] field = 2 -> [@ EXCEPT !.amount = text[v][2]]
                           [] field = 3 -> [@ EXCEPT !.balance_after = text[v][2]]]
    IN  /\ at = "tran"
        /\ IF v = 0 \/ (field = 3 /\ end = 0) THEN Stop(slot)
           ELSE /\ IF field < 3
                   THEN Goes("tran", field + 1, v + 1) /\ UNCHANGED trans_read
                   ELSE /\ Goes("array", field, IF Is(end, Char(Comma)) THEN end + 1 ELSE end)
                        /\ trans_read' = trans_read + 1
                /\ heap' = Stored(heap)
                /\ UNCHANGED <<slot, name>>

\* mutant: an account with nothing after it does not count.
ClosingNeedsMore ==
    LET end == SkipTo(pos, EndBrace)
    IN  /\ at = "closing"
        /\ IF end = 0 \/ ~ (Is(end, Char(Comma)) \/ Is(end, Char(EndBracket)))
           THEN Stop(slot)
           ELSE /\ Goes("account", 1, end + 1)
                /\ slot' = slot + 1
                /\ UNCHANGED <<trans_read, name, heap>>

\* The end of the account, and what follows it: another, the end of the array,
\* or nothing, and then the account still counts.
Closing ==
    LET end == SkipTo(pos, EndBrace)
        more == \/ Is(end, Char(Comma))
                \/ Is(end, Char(EndBracket)) /\ slot = heap.accounts_in_use - 1
    IN  /\ at = "closing"
        /\ IF end = 0 THEN Stop(slot)
           ELSE IF ~ more THEN Stop(slot + 1)
           ELSE /\ Goes("account", 1, end + 1)
                /\ slot' = slot + 1
                /\ UNCHANGED <<trans_read, name, heap>>

\* The process saves what it loaded, ends, and another one loads that.
NextTrip ==
    /\ at = "done" /\ trip = 1
    /\ trip' = 2
    /\ saved' = heap
    /\ text' = save_data(heap)
    /\ heap' = FreshHeap
    /\ pos' = 1 /\ at' = "brace" /\ field' = 1
    /\ slot' = 0 /\ trans_read' = 0 /\ name' = << >>

Next ==
    \/ OpeningBrace \/ Header \/ NextAccount \/ Field \/ NameChar \/ Array \/ Transaction
    \/ Closing \/ NextTrip

Spec == Init /\ [][Next]_vars

-----------------------------------------------------------------------------
(* Properties.                                                             *)

TypeOK ==
    /\ at \in {"brace", "header", "account", "field", "name", "array", "tran", "closing", "done"}
    /\ pos \in 1 .. Len(text) + 2
    /\ slot \in 0 .. MAX_ACCTS /\ trans_read \in 0 .. TRANS_KEEP
    /\ Len(name) < NameSize
    /\ heap.accounts_in_use \in 0 .. MAX_ACCTS

\* The file in the terms of BankPersistence: the accounts all of whose text
\* is there.
WholeAccounts == Max({n \in 0 .. saved.accounts_in_use : Len(TextTo(saved, n)) <= Len(text)})

FileOf ==
    IF text = << >> THEN EmptyFile
    ELSE [Image(saved) EXCEPT !.accounts = SubSeq(@, 1, WholeAccounts),
             !.kind = IF text = save_data(saved) THEN "whole" ELSE "cut"]

Nameless(a) == [a EXCEPT !.name = << >>]

\* Wherever the file ends, the reader comes to what BankPersistence says of
\* it: these accounts, their transactions and numbers, and this count.
LoadsFile ==
    at = "done" =>
        /\ heap.accounts_in_use = Loaded(FileOf).accounts_in_use
        /\ heap.next_number = Loaded(FileOf).next_number
        /\ \A j \in LiveSlots(heap) : Nameless(heap.bank[j]) = Nameless(Loaded(FileOf).bank[j])

\* "A string with proper JSON escaping" (dto_json.h:3) comes back as it was:
\* for the characters from 1 to 127, the quote and the backslash among them.
NamesKept ==
    at = "done" =>
        \A j \in LiveSlots(heap) :
            (\A k \in DOMAIN saved.bank[j].name : saved.bank[j].name[k] < 128)
                => heap.bank[j].name = saved.bank[j].name

\* What a load made of a name, which for other characters is not what was
\* saved, stays what it is through all saves and loads after it.
NamesSettle ==
    at = "done" /\ trip = 2 =>
        \A j \in LiveSlots(heap) : heap.bank[j].name = saved.bank[j].name

=============================================================================
