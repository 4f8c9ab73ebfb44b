--------------------------- MODULE ReadFieldProofs ---------------------------
(***************************************************************************)
(* What readField accepts, and what ENTER alone keeps, for every alphabet, *)
(* every limits and every text that stands for a password.                 *)
(***************************************************************************)
EXTENDS ReadField, TLAPS, WellFoundedInduction

Buffers == [Cells -> Chars \cup {Nul}]

-----------------------------------------------------------------------------
(* Strings in a buffer.                                                    *)

LEMMA LeastNumber ==
  ASSUME NEW T, T \subseteq Nat, T # {}
  PROVE  \E x \in T : \A y \in T : x <= y
<1>1. PICK x \in T : \A y \in T : ~ (<<y, x>> \in OpToRel(<, Nat))
  BY NatLessThanWellFounded, WFMin
<1>2. \A y \in Nat : <<y, x>> \in OpToRel(<, Nat) <=> y < x
  BY DEF OpToRel
<1>3. \A y \in T : y \in Nat /\ ~(y < x)
  BY <1>1, <1>2
<1>4. \A y \in T : x <= y
  BY <1>3
<1> QED
  BY <1>4

LEMMA StrlenFirst ==
  ASSUME NEW s \in Buffers, NEW n \in Cells, s[n] = Nul,
         \A j \in 0 .. n - 1 : s[j] # Nul
  PROVE  strlen(s) = n
<1> DEFINE First(i) == s[i] = Nul /\ \A j \in 0 .. i - 1 : s[j] # Nul
<1>1. n \in Nat /\ \A i \in Cells : i \in Nat
  BY FieldAssumption DEF Cells
<1>2. \A i \in Cells : First(i) => i = n
  BY <1>1
<1>3. First(n)
  OBVIOUS
<1>4. strlen(s) = CHOOSE i \in Cells : First(i)
  BY DEF strlen
<1> HIDE DEF First
<1>5. (CHOOSE i \in Cells : First(i)) = n
  BY <1>2, <1>3
<1> QED
  BY <1>4, <1>5

\* The first end in a buffer, or none at all.
LEMMA StrlenFacts ==
  ASSUME NEW s \in Buffers
  PROVE  /\ strlen(s) \in 0 .. Max + 1
         /\ strlen(s) <= Max => s[strlen(s)] = Nul
         /\ \A j \in Cells : j < strlen(s) => s[j] # Nul
<1>1. Max \in Nat /\ Cells \subseteq Nat /\ \A i \in Cells : i <= Max
  BY FieldAssumption DEF Cells
<1>2. CASE \E i \in Cells : s[i] = Nul
  <2> DEFINE T == {i \in Cells : s[i] = Nul}
  <2>1. PICK n \in T : \A y \in T : n <= y
    BY <1>1, <1>2, LeastNumber
  <2>2. \A j \in Cells : j < n => s[j] # Nul
    BY <1>1, <2>1
  <2>3. \A j \in 0 .. n - 1 : j \in Cells /\ j < n
    BY <1>1, <2>1 DEF Cells
  <2>4. strlen(s) = n
    BY <2>1, <2>2, <2>3, StrlenFirst
  <2> QED
    BY <1>1, <2>1, <2>2, <2>4
<1>3. CASE ~\E i \in Cells : s[i] = Nul
  BY <1>1, <1>3 DEF strlen
<1> QED
  BY <1>2, <1>3

\* Writing the end at or behind the one that is there changes no string.
LEMMA EndRewritten ==
  ASSUME NEW s \in Buffers, NEW e \in Cells, strlen(s) <= e
  PROVE  /\ strlen([s EXCEPT ![e] = Nul]) = strlen(s)
         /\ \A j \in Cells : j < strlen(s) => [s EXCEPT ![e] = Nul][j] = s[j]
<1> DEFINE t == [s EXCEPT ![e] = Nul]
           n == strlen(s)
<1>1. /\ Max \in Nat /\ Cells \subseteq Nat /\ e \in Nat /\ e <= Max
  BY FieldAssumption DEF Cells
<1>2. /\ n \in Nat /\ n <= Max /\ n \in Cells /\ s[n] = Nul
      /\ \A j \in Cells : j < n => s[j] # Nul
  BY <1>1, StrlenFacts DEF Cells
<1>3. t \in Buffers /\ \A j \in Cells : t[j] = IF j = e THEN Nul ELSE s[j]
  BY DEF Buffers
<1>4. \A j \in Cells : j < n => t[j] = s[j]
  BY <1>1, <1>2, <1>3
<1>5. t[n] = Nul /\ \A j \in 0 .. n - 1 : t[j] # Nul
  <2>1. \A j \in 0 .. n - 1 : j \in Cells /\ j < n
    BY <1>1, <1>2 DEF Cells
  <2> QED
    BY <1>2, <1>3, <1>4, <2>1
<1>6. strlen(t) = n
  BY <1>2, <1>3, <1>5, StrlenFirst
<1> QED
  BY <1>4, <1>6

-----------------------------------------------------------------------------
(* The inductive invariant.                                                *)

TypeInv == TypeOK /\ (step = "keys" => numCharacters <= Max)

\* What was typed is at the front of the buffer; it ends there once it is
\* accepted, or it fills the buffer, whose last cell only an entry that is too
\* long writes.
TypedInv ==
  /\ \A i \in 1 .. numCharacters : field[i - 1] = typed[i]
  /\ ~overlong /\ size > Max => field[Max] = Nul
  /\ step = "accepted" /\ numCharacters > 0 =>
       /\ numCharacters <= Max
       /\ numCharacters < Max => field[numCharacters] = Nul
       /\ numCharacters >= Min \/ defaultLength >= Min

\* Until a key is stored the buffer holds what ENTER alone stands for, and the
\* default is exactly as long, or the mask no shorter.
ShownInv ==
  /\ step = "accepted" => everAccepted
  /\ masked /\ ~everAccepted => shown = <<>>
  /\ step = "keys" /\ ~touched => numCharacters = 0
  /\ step = "keys" /\ masked => defaultLength = IF everAccepted THEN MaskLength ELSE 0
  /\ step = "keys" /\ ~masked /\ ~touched => defaultLength = strlen(field)
  /\ ~touched /\ (IF masked THEN Len(shown) <= MaskLength ELSE step # "ask") => Text = shown

Inv == TypeInv /\ TypedInv /\ ShownInv

-----------------------------------------------------------------------------
(* Type correctness.                                                       *)

LEMMA BufferTyped ==
  ASSUME TypeOK
  PROVE  field \in Buffers
BY DEF TypeOK, Buffers

LEMMA TextTyped ==
  ASSUME TypeOK
  PROVE  Text \in Seq(Chars) /\ Len(Text) = strlen(field)
<1> DEFINE n == strlen(field)
<1>1. n \in 0 .. Max + 1 /\ \A j \in Cells : j < n => field[j] # Nul
  BY BufferTyped, StrlenFacts
<1>2. n \in Nat
  BY <1>1, FieldAssumption
<1>3. \A i \in 1 .. n : i - 1 \in Cells /\ i - 1 < n
  BY <1>1, FieldAssumption DEF Cells
<1>4. \A i \in 1 .. n : field[i - 1] \in Chars
  BY <1>1, <1>3 DEF TypeOK
<1>5. Text \in [1 .. n -> Chars]
  BY <1>4 DEF Text
<1> QED
  BY <1>2, <1>5

\* The text is settled by the string's length and the cells in front of its end.
LEMMA TextKept ==
  ASSUME TypeOK, strlen(field') = strlen(field),
         \A j \in Cells : j < strlen(field) => field'[j] = field[j]
  PROVE  Text' = Text
<1> DEFINE n == strlen(field)
<1>1. n \in 0 .. Max + 1
  BY BufferTyped, StrlenFacts
<1>2. \A i \in 1 .. n : i - 1 \in Cells /\ i - 1 < n
  BY <1>1, FieldAssumption DEF Cells
<1>3. \A i \in 1 .. n : field'[i - 1] = field[i - 1]
  BY <1>2
<1>4. Text' = [i \in 1 .. strlen(field') |-> field'[i - 1]]
  BY DEF Text
<1> QED
  BY <1>3, <1>4 DEF Text

LEMMA TypeInit == Init => TypeInv
<1> SUFFICES ASSUME Init PROVE TypeInv
  OBVIOUS
<1>1. 0 \in 0 .. Max + 1 /\ 0 <= Max
  BY FieldAssumption
<1>2. field \in [Cells -> Chars \cup {Nul}]
  BY DEF Init
<1>3. typed \in Seq(Chars) /\ shown \in Seq(Chars) /\ Len(typed) = 0
  BY DEF Init
<1>4. /\ masked \in BOOLEAN /\ everAccepted \in BOOLEAN /\ touched \in BOOLEAN /\ overlong \in BOOLEAN
      /\ outside = FALSE /\ size \in {Max, Max + 1} /\ (masked => size = Max + 1)
  BY DEF Init
<1> QED
  BY <1>1, <1>2, <1>3, <1>4 DEF Init, TypeInv, TypeOK

LEMMA TypeStep ==
  ASSUME TypeInv, [Next]_vars
  PROVE  TypeInv'
<1> TypeOK /\ (step = "keys" => numCharacters <= Max)
  BY DEF TypeInv
<1> USE DEF TypeInv, TypeOK, history
<1>1. CASE Ask
  <2>1. strlen(field) \in 0 .. Max + 1 /\ Text \in Seq(Chars)
    BY BufferTyped, StrlenFacts, TextTyped
  <2>2. defaultLength' \in 0 .. Max + 1
    BY <1>1, <2>1, FieldAssumption DEF Ask
  <2>3. shown' \in Seq(Chars)
    BY <1>1, <2>1 DEF Ask
  <2>4. 0 \in 0 .. Max + 1 /\ 0 <= Max /\ Len(<<>>) = 0 /\ <<>> \in Seq(Chars)
    BY FieldAssumption
  <2> QED
    BY <1>1, <2>2, <2>3, <2>4 DEF Ask
<1>2. ASSUME NEW c \in Chars, Character(c)
      PROVE  TypeInv'
  <2>1. /\ numCharacters \in Cells
        /\ numCharacters + 1 \in 0 .. Max + 1
        /\ numCharacters # Max => numCharacters + 1 <= Max
    BY <1>2, FieldAssumption DEF Character, Cells
  <2>2. /\ field' \in [Cells -> Chars \cup {Nul}]
        /\ outside' \in BOOLEAN /\ (outside' => size = Max)
    <3>1. field' = [field EXCEPT ![numCharacters] = c] /\ outside' = (outside \/ numCharacters >= size)
      BY <1>2 DEF Character, Put
    <3>2. numCharacters >= size => size = Max
      BY <1>2, <2>1, FieldAssumption DEF Character, Cells
    <3> QED
      BY <3>1, <3>2
  <2>3. typed' \in Seq(Chars) /\ Len(typed') = numCharacters + 1
    BY <1>2 DEF Character
  <2>4. step' \in {"ask", "keys", "accepted"} /\ (step' = "keys" => numCharacters # Max)
    BY <1>2 DEF Character
  <2>5. overlong' \in BOOLEAN /\ touched' \in BOOLEAN
    BY <1>2 DEF Character
  <2> QED
    BY <1>2, <2>1, <2>2, <2>3, <2>4, <2>5 DEF Character
<1>3. CASE Backspace
  <2>1. numCharacters - 1 \in 0 .. Max + 1 /\ numCharacters - 1 <= Max
    BY <1>3, FieldAssumption DEF Backspace
  <2>2. typed' \in Seq(Chars) /\ Len(typed') = numCharacters - 1
    BY <1>3 DEF Backspace
  <2> QED
    BY <1>3, <2>1, <2>2 DEF Backspace
<1>4. CASE InvalidCharacter
  <2>1. /\ field' \in [Cells -> Chars \cup {Nul}]
        /\ outside' \in BOOLEAN /\ (outside' => size = Max)
    <3>1. field' = [field EXCEPT ![numCharacters] = Nul] /\ outside' = (outside \/ numCharacters >= size)
      BY <1>4 DEF InvalidCharacter, Put
    <3>2. numCharacters >= size => size = Max
      BY <1>4, FieldAssumption DEF InvalidCharacter
    <3> QED
      BY <3>1, <3>2
  <2> QED
    BY <1>4, <2>1 DEF InvalidCharacter
<1>5. CASE Enter
  <2>1. /\ field' \in [Cells -> Chars \cup {Nul}]
        /\ outside' \in BOOLEAN /\ (outside' => size = Max)
    BY <1>5, FieldAssumption DEF Enter, Put
  <2>2. step' \in {"ask", "accepted"} /\ everAccepted' \in BOOLEAN
    BY <1>5 DEF Enter
  <2> QED
    BY <1>5, <2>1, <2>2 DEF Enter
<1>6. CASE StartOver
  BY <1>6, TextTyped DEF StartOver
<1>7. CASE UNCHANGED vars
  BY <1>7 DEF vars
<1> QED
  BY <1>1, <1>2, <1>3, <1>4, <1>5, <1>6, <1>7 DEF Next

-----------------------------------------------------------------------------
(* What is typed.                                                          *)

LEMMA TypedStep ==
  ASSUME TypeInv, TypedInv, [Next]_vars
  PROVE  TypedInv'
<1>1. /\ Max \in Nat /\ 0 < Min /\ numCharacters \in Nat /\ numCharacters <= Max + 1
      /\ field \in [Cells -> Chars \cup {Nul}] /\ typed \in Seq(Chars)
      /\ Len(typed) = numCharacters
      /\ step = "keys" => numCharacters <= Max
  BY FieldAssumption DEF TypeInv, TypeOK
<1>2. \A i \in 1 .. numCharacters : i - 1 \in Cells /\ i - 1 < numCharacters
  BY <1>1 DEF Cells
<1>3. Max \in Cells
  BY <1>1 DEF Cells
<1>4. ASSUME UNCHANGED <<size, field, numCharacters, typed, overlong>>, step' # "accepted"
      PROVE  TypedInv'
  BY <1>4 DEF TypedInv
<1>5. CASE Ask
  BY <1>5 DEF Ask, TypedInv
<1>6. ASSUME NEW c \in Chars, Character(c)
      PROVE  TypedInv'
  <2> DEFINE n == numCharacters
  <2>1. /\ step = "keys" /\ field' = [field EXCEPT ![n] = c] /\ n' = n + 1
        /\ typed' = Append(typed, c) /\ step' # "accepted"
        /\ overlong' = (overlong \/ n = Max) /\ size' = size
    BY <1>6 DEF Character, Put
  <2>2. n \in Cells /\ \A j \in Cells : field'[j] = IF j = n THEN c ELSE field[j]
    BY <1>1, <2>1 DEF Cells
  <2>3. /\ \A i \in 1 .. n : typed'[i] = typed[i]
        /\ typed'[n + 1] = c
    BY <1>1, <2>1
  <2>4. \A i \in 1 .. n : field'[i - 1] = typed'[i]
    <3> TAKE i \in 1 .. n
    <3>1. i - 1 \in Cells /\ i - 1 # n
      BY <1>1, <1>2
    <3> QED
      BY <2>2, <2>3, <3>1 DEF TypedInv
  <2>5. \A i \in 1 .. n + 1 : field'[i - 1] = typed'[i]
    <3> TAKE i \in 1 .. n + 1
    <3>1. CASE i = n + 1
      <4>1. i - 1 = n
        BY <1>1, <3>1
      <4> QED
        BY <2>2, <2>3, <3>1, <4>1
    <3>2. CASE i # n + 1
      <4>1. i \in 1 .. n
        BY <1>1, <3>2
      <4> QED
        BY <2>4, <4>1
    <3> QED
      BY <3>1, <3>2
  <2>6. ~overlong' /\ size' > Max => field'[Max] = Nul
    BY <1>3, <2>1, <2>2 DEF TypedInv
  <2> QED
    BY <2>1, <2>5, <2>6 DEF TypedInv
<1>7. CASE Backspace
  <2>1. /\ numCharacters' = numCharacters - 1 /\ numCharacters > 0
        /\ typed' = SubSeq(typed, 1, numCharacters - 1)
        /\ UNCHANGED <<size, field, overlong>> /\ step' # "accepted"
    BY <1>7 DEF Backspace
  <2>2. \A i \in 1 .. numCharacters - 1 : i \in 1 .. numCharacters /\ typed'[i] = typed[i]
    BY <1>1, <2>1
  <2> QED
    BY <2>1, <2>2 DEF TypedInv
<1>8. CASE InvalidCharacter
  <2>1. /\ field' = [field EXCEPT ![numCharacters] = Nul] /\ step' # "accepted"
        /\ UNCHANGED <<size, numCharacters, typed, overlong>>
    BY <1>8 DEF InvalidCharacter, Put
  <2>2. \A j \in Cells : field'[j] = IF j = numCharacters THEN Nul ELSE field[j]
    BY <1>1, <2>1
  <2>3. \A i \in 1 .. numCharacters : i - 1 \in Cells /\ i - 1 # numCharacters
    BY <1>1, <1>2
  <2> QED
    BY <1>3, <2>1, <2>2, <2>3 DEF TypedInv
<1>9. CASE Enter
  <2> DEFINE end == IF numCharacters = 0 THEN defaultLength ELSE numCharacters
  <2>1. /\ step = "keys" /\ UNCHANGED <<size, numCharacters, typed, overlong, defaultLength>>
        /\ field' = IF end < Max THEN [field EXCEPT ![end] = Nul] ELSE field
        /\ step' = "accepted" => ~TooShort
    BY <1>9 DEF Enter, Put
  <2>2. end \in Nat
    BY <1>1, FieldAssumption DEF TypeInv, TypeOK
  <2>3. \A j \in Cells : field'[j] = IF end < Max /\ j = end THEN Nul ELSE field[j]
    BY <1>1, <2>1
  <2>4. \A i \in 1 .. numCharacters : field'[i - 1] = typed'[i]
    <3> TAKE i \in 1 .. numCharacters
    <3>1. i - 1 \in Cells /\ i - 1 # end
      BY <1>1, <1>2
    <3> QED
      BY <2>1, <2>3, <3>1 DEF TypedInv
  <2>5. ~overlong' /\ size' > Max => field'[Max] = Nul
    BY <1>3, <2>1, <2>3 DEF TypedInv
  <2>6. numCharacters > 0 /\ numCharacters < Max => field'[numCharacters] = Nul
    <3> HAVE numCharacters > 0 /\ numCharacters < Max
    <3>1. end = numCharacters /\ numCharacters \in Cells
      BY <1>1 DEF Cells
    <3> QED
      BY <2>3, <3>1
  <2>7. step' = "accepted" /\ numCharacters > 0
          => numCharacters >= Min \/ defaultLength >= Min
    BY <1>1, <2>1, FieldAssumption DEF TooShort, TypeInv, TypeOK
  <2> QED
    BY <1>1, <2>1, <2>4, <2>5, <2>6, <2>7 DEF TypedInv
<1>10. CASE StartOver
  BY <1>10, <1>4 DEF StartOver
<1>11. CASE UNCHANGED vars
  BY <1>11 DEF vars, history, TypedInv
<1> QED
  BY <1>5, <1>6, <1>7, <1>8, <1>9, <1>10, <1>11 DEF Next

-----------------------------------------------------------------------------
(* What ENTER alone stands for.                                            *)

\* ENTER alone, before any key was stored, rewrites the end of what it keeps.
LEMMA EnterKeeps ==
  ASSUME TypeInv, ShownInv, Enter, ~touched,
         masked => Len(shown) <= MaskLength
  PROVE  Text' = shown
<1>1. /\ step = "keys" /\ numCharacters = 0 /\ Text = shown
      /\ masked => defaultLength = IF everAccepted THEN MaskLength ELSE 0
      /\ ~masked => defaultLength = strlen(field)
  BY DEF ShownInv, Enter
<1>2. field' = IF defaultLength < Max THEN [field EXCEPT ![defaultLength] = Nul] ELSE field
  BY <1>1 DEF Enter, Put
<1>3. TypeOK /\ Len(Text) = strlen(field)
  BY TextTyped DEF TypeInv
<1>4. strlen(field) <= defaultLength
  <2>1. strlen(field) \in Nat
    BY <1>3, BufferTyped, StrlenFacts, FieldAssumption
  <2>2. CASE masked /\ everAccepted
    BY <1>1, <1>3, <2>2
  <2>3. CASE masked /\ ~everAccepted
    BY <1>1, <1>3, <2>3 DEF ShownInv
  <2>4. CASE ~masked
    BY <1>1, <2>1, <2>4
  <2> QED
    BY <2>2, <2>3, <2>4
<1>5. CASE defaultLength < Max
  <2>1. defaultLength \in Cells /\ field' = [field EXCEPT ![defaultLength] = Nul]
    BY <1>2, <1>3, <1>5, FieldAssumption DEF TypeOK, Cells
  <2>2. /\ strlen(field') = strlen(field)
        /\ \A j \in Cells : j < strlen(field) => field'[j] = field[j]
    BY <1>3, <1>4, <2>1, BufferTyped, EndRewritten
  <2> QED
    BY <1>1, <1>3, <2>2, TextKept
<1>6. CASE ~(defaultLength < Max)
  <2>1. field' = field
    BY <1>2, <1>6
  <2> QED
    BY <1>1, <2>1 DEF Text
<1> QED
  BY <1>5, <1>6

LEMMA ShownStep ==
  ASSUME TypeInv, ShownInv, [Next]_vars
  PROVE  ShownInv'
<1>1. CASE Ask
  <2>1. /\ step = "ask" /\ step' = "keys" /\ numCharacters' = 0
        /\ UNCHANGED <<masked, field, everAccepted>> /\ UNCHANGED Text
    BY <1>1 DEF Ask, Text
  <2>2. CASE masked
    <3>1. touched' = touched /\ shown' = shown
          /\ defaultLength' = IF everAccepted THEN MaskLength ELSE 0
      BY <1>1, <2>2 DEF Ask, TypeInv, TypeOK
    <3> QED
      BY <2>1, <2>2, <3>1 DEF ShownInv
  <2>3. CASE ~masked
    <3>1. ~touched' /\ shown' = Text /\ defaultLength' = strlen(field)
      BY <1>1, <2>3 DEF Ask
    <3> QED
      BY <2>1, <2>3, <3>1 DEF ShownInv
  <2> QED
    BY <2>2, <2>3
<1>2. ASSUME NEW c \in Chars, Character(c)
      PROVE  ShownInv'
  BY <1>2 DEF Character, ShownInv
<1>3. CASE Backspace
  <2>1. touched' /\ step' = "keys" /\ UNCHANGED <<masked, everAccepted, shown, defaultLength>>
    BY <1>3 DEF Backspace, ShownInv
  <2> QED
    BY <1>3, <2>1 DEF ShownInv, Backspace
<1>4. CASE InvalidCharacter
  BY <1>4 DEF InvalidCharacter, ShownInv
<1>5. CASE Enter
  <2>1. /\ step = "keys" /\ step' \in {"ask", "accepted"}
        /\ step' = "accepted" => everAccepted'
        /\ everAccepted => everAccepted'
        /\ UNCHANGED <<masked, shown, touched>>
    BY <1>5 DEF Enter
  <2>2. ~touched /\ (masked => Len(shown) <= MaskLength) => Text' = shown
    BY <1>5, EnterKeeps
  <2>3. ~touched' /\ (IF masked' THEN Len(shown') <= MaskLength ELSE step' # "ask")
           => Text' = shown'
    BY <2>1, <2>2
  <2> QED
    BY <2>1, <2>3 DEF ShownInv
<1>6. CASE StartOver
  <2>1. /\ step = "accepted" /\ step' = "ask" /\ shown' = Text
        /\ UNCHANGED <<masked, field, everAccepted>>
    BY <1>6 DEF StartOver
  <2>2. Text' = Text
    BY <2>1 DEF Text
  <2> QED
    BY <2>1, <2>2 DEF ShownInv
<1>7. CASE UNCHANGED vars
  <2>1. UNCHANGED <<masked, field, numCharacters, defaultLength, step, everAccepted, touched, shown>>
    BY <1>7 DEF vars, history
  <2>2. Text' = Text
    BY <2>1 DEF Text
  <2> QED
    BY <2>1, <2>2 DEF ShownInv
<1> QED
  BY <1>1, <1>2, <1>3, <1>4, <1>5, <1>6, <1>7 DEF Next

-----------------------------------------------------------------------------
(* The theorems.                                                           *)

LEMMA InvInit == Init => Inv
<1> SUFFICES ASSUME Init PROVE Inv
  OBVIOUS
<1>1. TypeInv
  BY TypeInit
<1>2. /\ 0 \in Cells /\ Max \in Cells /\ field \in Buffers /\ field[0] = Nul
      /\ size > Max => field[Max] = Nul
  BY FieldAssumption DEF Init, Cells, Buffers
<1>3. strlen(field) = 0
  BY <1>2, StrlenFirst
<1>4. Text = shown
  BY <1>3 DEF Init, Text
<1>5. TypedInv
  BY <1>2 DEF Init, TypedInv
<1> QED
  BY <1>1, <1>4, <1>5 DEF Init, Inv, ShownInv

LEMMA Invariance == Spec => []Inv
<1>1. Inv /\ [Next]_vars => Inv'
  BY TypeStep, TypedStep, ShownStep DEF Inv
<1> QED
  BY <1>1, InvInit, PTL DEF Spec

\* No key and no end is stored outside of a buffer with a cell to spare, whatever
\* is typed and erased (loopsutil.cpp:58-125); for userName (cloudwizard.cpp:246)
\* the cell behind it is the only other one written.  The variables keep their
\* types.
THEOREM TypeCorrect == Spec => []TypeOK
<1>1. Inv => TypeOK
  BY DEF Inv, TypeInv
<1> QED
  BY <1>1, Invariance, PTL

\* An accepted entry is in the buffer as it was typed and within its limits, but
\* for the code's exceptions.
THEOREM EntryKept == Spec => []AcceptedAsTyped
<1>1. Inv => AcceptedAsTyped
  <2> SUFFICES ASSUME Inv, step = "accepted", typed # <<>>
               PROVE  /\ Text = typed \/ (Len(typed) = Max /\ (overlong \/ size = Max))
                      /\ Len(typed) <= Max
                      /\ Len(typed) >= Min \/ defaultLength >= Min
    BY DEF AcceptedAsTyped
  <2> DEFINE n == numCharacters
  <2>1. /\ TypeOK /\ TypedInv /\ Max \in Nat
        /\ typed \in Seq(Chars) /\ Len(typed) = n /\ n \in Nat /\ n > 0
        /\ size \in {Max, Max + 1}
    BY FieldAssumption DEF Inv, TypeInv, TypeOK
  <2>2. /\ n <= Max /\ (n < Max => field[n] = Nul)
        /\ n >= Min \/ defaultLength >= Min
    BY <2>1 DEF TypedInv
  <2>3. ASSUME ~(n = Max /\ (overlong \/ size = Max))
        PROVE  Text = typed
    <3>1. n \in Cells /\ field[n] = Nul
      BY <2>1, <2>2, <2>3 DEF TypedInv, Cells
    <3>2. \A i \in 1 .. n : typed[i] \in Chars /\ field[i - 1] = typed[i]
      BY <2>1 DEF TypedInv
    <3>3. \A j \in 0 .. n - 1 : field[j] # Nul
      <4> TAKE j \in 0 .. n - 1
      <4>1. j + 1 \in 1 .. n /\ (j + 1) - 1 = j
        BY <2>1
      <4> QED
        BY <3>2, <4>1, FieldAssumption
    <3>4. strlen(field) = n
      BY <2>1, <3>1, <3>3, BufferTyped, StrlenFirst
    <3>5. Text = [i \in 1 .. n |-> typed[i]]
      BY <3>2, <3>4 DEF Text
    <3> QED
      BY <2>1, <3>5
  <2> QED
    BY <2>1, <2>2, <2>3
<1> QED
  BY <1>1, Invariance, PTL

\* ENTER alone keeps the text it stands for, but for the code's exceptions.
THEOREM EnterAloneKeeps == Spec => []DefaultKept
<1>1. Inv => DefaultKept
  BY DEF Inv, ShownInv, DefaultKept
<1> QED
  BY <1>1, Invariance, PTL
=============================================================================
