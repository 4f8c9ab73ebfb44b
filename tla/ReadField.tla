------------------------------ MODULE ReadField ------------------------------
(***************************************************************************)
(* One field of the onboarding console, read key by key into a buffer of   *)
(* the configuration (readField of loopsutil.cpp) and asked for again      *)
(* until it is accepted, and again when its wizard starts over.  Pressing  *)
(* ENTER alone takes the default: what the buffer holds, for names and     *)
(* tokens; for a password a fixed text that stands for the previous one.   *)
(* Every buffer but the user's email has a cell more than the entry may    *)
(* have characters; userName[30] is read with a limit of 30.               *)
(***************************************************************************)
EXTENDS Naturals, Sequences

CONSTANTS
  Chars,       \* characters the validator of the field lets through
  Nul,         \* '\0'
  Min, Max,    \* minCharacters, maxCharacters
  MaskLength   \* length of "<previous password>"

ASSUME FieldAssumption ==
  /\ Nul \notin Chars
  /\ Min \in Nat /\ Max \in Nat /\ MaskLength \in Nat
  /\ 0 < Min /\ Min <= MaskLength /\ MaskLength < Max

\* Memory from the start of the buffer on, as far as a key is stored: the last
\* cell belongs to the buffer, or to its neighbour.
Cells == 0 .. Max

VARIABLES
  size,           \* the cells of the buffer
  masked,         \* the field is a password
  field,          \* the buffer
  numCharacters,
  defaultLength,
  step,           \* "ask", or reading "keys", or "accepted"
  everAccepted,   \* defaultPassword has been set
  typed,          \* history: what the user has typed and not erased
  touched,        \* history: a key was stored in the buffer since `shown` was settled
  shown,          \* history: the text ENTER alone stands for
  overlong,       \* history: an entry was too long once
  outside         \* history: a character or an end was stored outside of the buffer

history == <<typed, touched, shown, overlong, outside>>
vars    == <<size, masked, field, numCharacters, defaultLength, step, everAccepted, history>>

\* strlen of a buffer without end is more than Max.
strlen(s) == IF \E i \in Cells : s[i] = Nul
             THEN CHOOSE i \in Cells : s[i] = Nul /\ \A j \in 0 .. i - 1 : s[j] # Nul
             ELSE Max + 1

\* The string in the buffer.
Text == [i \in 1 .. strlen(field) |-> field[i - 1]]

\* The types; and nothing is stored outside of a buffer that has a cell to spare,
\* whatever is typed, erased and typed too long.
TypeOK ==
  /\ masked \in BOOLEAN
  /\ size \in {Max, Max + 1} /\ (masked => size = Max + 1)
  /\ outside \in BOOLEAN /\ (outside => size = Max)
  /\ field \in [Cells -> Chars \cup {Nul}]
  /\ numCharacters \in 0 .. Max + 1 /\ Len(typed) = numCharacters
  /\ defaultLength \in 0 .. Max + 1
  /\ step \in {"ask", "keys", "accepted"}
  /\ everAccepted \in BOOLEAN /\ touched \in BOOLEAN /\ overlong \in BOOLEAN
  /\ typed \in Seq(Chars) /\ shown \in Seq(Chars)

Init ==
  /\ masked \in BOOLEAN
  /\ size \in IF masked THEN {Max + 1} ELSE {Max, Max + 1}
  /\ \E behind \in Chars \cup {Nul} : field = [i \in Cells |-> IF i < size THEN Nul ELSE behind]
  /\ numCharacters = 0 /\ defaultLength = 0
  /\ step = "ask"
  /\ everAccepted = FALSE
  /\ typed = <<>> /\ touched = FALSE /\ shown = <<>> /\ overlong = FALSE
  /\ outside = FALSE

-----------------------------------------------------------------------------

\* field[i] = c, be it in the buffer or behind it.
Put(i, c) ==
  /\ field' = [field EXCEPT ![i] = c]
  /\ outside' = (outside \/ i >= size)

\* The prompt, with the default; for a password that was accepted before, the
\* text that stands for it.
Ask ==
  /\ step = "ask"
  /\ step' = "keys"
  /\ numCharacters' = 0 /\ typed' = <<>>
  /\ touched' = (masked /\ touched)
  /\ defaultLength' = CASE ~masked -> strlen(field)
                        [] masked /\ everAccepted -> MaskLength
                        [] OTHER -> 0
  /\ shown' = IF masked THEN shown ELSE Text
  /\ UNCHANGED <<size, masked, field, everAccepted, overlong, outside>>

\* Mutant: room for one character more is assumed.
CharacterBeyond(c) ==
  /\ step = "keys"
  /\ field' = [i \in Cells \cup {numCharacters} |-> IF i = numCharacters THEN c ELSE field[i]]
  /\ outside' = (outside \/ numCharacters >= size)
  /\ numCharacters' = numCharacters + 1
  /\ typed' = Append(typed, c) /\ touched' = TRUE
  /\ LET full == numCharacters > Max IN
       /\ step' = IF full THEN "ask" ELSE "keys"
       /\ overlong' = (overlong \/ full)
  /\ UNCHANGED <<size, masked, defaultLength, everAccepted, shown>>

\* With one character too many the loop ends ("Entry too long!").
Character(c) ==
  /\ step = "keys"
  /\ Put(numCharacters, c)
  /\ numCharacters' = numCharacters + 1
  /\ typed' = Append(typed, c) /\ touched' = TRUE
  /\ LET full == numCharacters = Max IN
       /\ step' = IF full THEN "ask" ELSE "keys"
       /\ overlong' = (overlong \/ full)
  /\ UNCHANGED <<size, masked, defaultLength, everAccepted, shown>>

Backspace ==
  /\ step = "keys"
  /\ numCharacters > 0
  /\ numCharacters' = numCharacters - 1
  /\ typed' = SubSeq(typed, 1, numCharacters - 1)
  /\ UNCHANGED <<size, masked, field, defaultLength, step, everAccepted, touched, shown, overlong, outside>>

\* Any other character ends the entry ("Invalid character received").
InvalidCharacter ==
  /\ step = "keys"
  /\ Put(numCharacters, Nul)
  /\ step' = "ask" /\ touched' = TRUE
  /\ UNCHANGED <<size, masked, numCharacters, defaultLength, everAccepted, typed, shown, overlong>>

TooShort ==
  \/ numCharacters = 0 /\ defaultLength = 0
  \/ numCharacters < Min /\ defaultLength < Min

\* Mutant: the end is written only when ENTER takes the default.
EnterUnterminated ==
  /\ step = "keys"
  /\ IF numCharacters = 0 /\ defaultLength < Max THEN Put(defaultLength, Nul)
     ELSE UNCHANGED <<field, outside>>
  /\ IF TooShort THEN step' = "ask" /\ UNCHANGED everAccepted
     ELSE step' = "accepted" /\ everAccepted' = TRUE
  /\ UNCHANGED <<size, masked, numCharacters, defaultLength, typed, touched, shown, overlong>>

\* Mutant: the default ends where the entry does.
EnterEmpties ==
  /\ step = "keys"
  /\ IF numCharacters < Max THEN Put(numCharacters, Nul) ELSE UNCHANGED <<field, outside>>
  /\ IF TooShort THEN step' = "ask" /\ UNCHANGED everAccepted
     ELSE step' = "accepted" /\ everAccepted' = TRUE
  /\ UNCHANGED <<size, masked, numCharacters, defaultLength, typed, touched, shown, overlong>>

\* ENTER.  The end of the string is written if there is room for it in front of
\* the last cell.
Enter ==
  /\ step = "keys"
  /\ LET end == IF numCharacters = 0 THEN defaultLength ELSE numCharacters IN
       IF end < Max THEN Put(end, Nul) ELSE UNCHANGED <<field, outside>>
  /\ IF TooShort THEN step' = "ask" /\ UNCHANGED everAccepted
     ELSE step' = "accepted" /\ everAccepted' = TRUE
  /\ UNCHANGED <<size, masked, numCharacters, defaultLength, typed, touched, shown, overlong>>

\* The wizard starts over: the network could not be joined with this.  The user's
\* email is not asked for again.
StartOver ==
  /\ step = "accepted" /\ size > Max
  /\ step' = "ask"
  /\ shown' = Text /\ touched' = FALSE
  /\ UNCHANGED <<size, masked, field, numCharacters, defaultLength, everAccepted, typed, overlong, outside>>

Next ==
  \/ Ask
  \/ \E c \in Chars : Character(c)
  \/ Backspace \/ InvalidCharacter \/ Enter
  \/ StartOver

Spec == Init /\ [][Next]_vars

-----------------------------------------------------------------------------
(* Properties.                                                             *)

\* An accepted entry is in the buffer as it was typed, backspaces included, and
\* within its limits.  The code's exceptions: an entry of full length has no
\* end when an earlier one was too long, or when the buffer has no cell for it;
\* one that is too short passes where the default is long enough
\* (loopsutil.cpp:157).
AcceptedAsTyped ==
  step = "accepted" /\ typed # <<>> =>
    /\ Text = typed \/ (Len(typed) = Max /\ (overlong \/ size = Max))
    /\ Len(typed) <= Max
    /\ Len(typed) >= Min \/ defaultLength >= Min

\* ENTER alone keeps what it is said to stand for.  The code's exceptions: that
\* text was typed over, by an entry that was erased or a password that was
\* refused; or it is a password longer than the text that stands for it.
DefaultKept ==
  step = "accepted" /\ ~touched /\ (masked => Len(shown) <= MaskLength) => Text = shown

\* loopsutil.cpp:47 with wifiwizard.cpp:146, "[Default: <previous password>]> ":
\* ENTER alone keeps the previous password, however long.
PreviousPasswordKept ==
  step = "accepted" /\ masked /\ ~touched => Text = shown
=============================================================================
