------------------------------- MODULE SmtpProofs -------------------------------
(***************************************************************************)
(* Proofs about module Smtp: types, and what a delivered mail is.          *)
(***************************************************************************)
EXTENDS Smtp, SequenceTheorems, WellFoundedInduction, TLAPS

\* A set of natural numbers that is not empty has a least element.
LEMMA LeastNatural ==
  ASSUME NEW S \in SUBSET Nat, S # {}
  PROVE  \E i \in S : \A j \in S : i <= j
<1>1. PICK i \in S : \A j \in S : <<j, i>> \notin OpToRel(<, Nat)
  BY NatLessThanWellFounded, WFMin
<1>2. ASSUME NEW j \in S PROVE ~ (j < i)
  BY <1>1, Zenon DEF OpToRel
<1> QED
  BY <1>2

\* How the letter of the server and the mail its client means are related as
\* long as nothing odd has happened.
Together ==
    /\ stage \in {"Begin", "Helo", "Done"} =>
          /\ ~ sending
          /\ letter.tos = << >> /\ letter.text = << >>
    /\ stage = "Mail" =>
          /\ ~ sending
          /\ letter.tos = << >> /\ letter.text = << >>
          /\ meant = letter
    /\ stage = "Rcpt" => ~ sending /\ letter.text = << >> /\ meant = letter
    /\ stage = "Data" => sending /\ meant = letter

\* The sender of a mail is the one its client named, unless one of three things
\* has happened.
SenderAgrees ==
    /\ odd \cap {"order", "words", "bare"} = {}
    /\ stage \in {"Mail", "Rcpt", "Data"}
    => letter.from = meant.from

\* The inductive invariant: the relations above; and, odd or not, the stages in
\* which there are recipients.
Inv ==
    /\ TypeOK
    /\ odd = {} => Together
    /\ stage \in {"Rcpt", "Data"} => letter.tos # << >>
    /\ SenderAgrees
    /\ DeliversWhatWasMeant /\ SenderIsMeant /\ HasRecipient

\* What of the invariant a handler is about: all but the buffer, and the mail
\* just delivered.
Dialogue ==
    /\ stage \in Stages
    /\ letter \in Letters /\ meant \in Letters
    /\ sending \in BOOLEAN
    /\ odd \subseteq Oddities
    /\ odd = {} => Together
    /\ stage \in {"Rcpt", "Data"} => letter.tos # << >>
    /\ SenderAgrees

-----------------------------------------------------------------------------
(* Letters and texts.                                                       *)

\* What the client adds keeps its mail a letter.
LEMMA ClientAddsType ==
  ASSUME meant \in Letters, NEW line \in Lines
  PROVE  ClientAdds(line) \in Letters /\ ClientAdds(line).from = meant.from
  BY DEF ClientAdds, Letters

\* The empty letter, and what a command makes of a letter, are letters.
LEMMA LetterTypes ==
  /\ NoLetter \in Letters
  /\ \A l \in Letters, from \in Addresses \cup {Nobody} :
        [l EXCEPT !.from = from] \in Letters
  /\ \A l \in Letters, to \in Locals :
        /\ [l EXCEPT !.tos = Append(@, to)] \in Letters
        /\ Append(l.tos, to) # << >>
  /\ \A l \in Letters, line \in Lines :
        [l EXCEPT !.text = Append(@, line)] \in Letters
<1>1. NoLetter \in Letters
  BY DEF NoLetter, Letters
<1>2. ASSUME NEW l \in Letters
      PROVE  l.tos \in Seq(Locals) /\ l.text \in Seq(Lines)
  BY DEF Letters
<1>3. ASSUME NEW l \in Letters, NEW to \in Locals
      PROVE  Append(l.tos, to) \in Seq(Locals)
             /\ Append(l.tos, to) # << >>
  BY <1>2
<1>4. ASSUME NEW l \in Letters, NEW line \in Lines
      PROVE  Append(l.text, line) \in Seq(Lines)
  BY <1>2
<1>5. \A l \in Letters, from \in Addresses \cup {Nobody} :
         [l EXCEPT !.from = from] \in Letters
  BY DEF Letters
<1>6. \A l \in Letters, to \in Locals :
         [l EXCEPT !.tos = Append(@, to)] \in Letters
  BY <1>3 DEF Letters
<1>7. \A l \in Letters, line \in Lines :
         [l EXCEPT !.text = Append(@, line)] \in Letters
  BY <1>4 DEF Letters
<1> QED
  BY <1>1, <1>3, <1>5, <1>6, <1>7

\* A stored text is a part of the text.
LEMMA StoredType ==
  ASSUME NEW text \in Seq(Lines), ~ Dies(text)
  PROVE  Stored(text) \in Seq(Lines)
<1> DEFINE at == {i \in DOMAIN text : text[i].verb = "Subject:"}
<1>1. CASE at = {}
  <2>1. text # << >>
    BY DEF Dies, HasSubject
  <2> QED
    BY <1>1, <2>1 DEF Stored
<1>2. CASE at # {}
  <2>1. at \in SUBSET Nat
    OBVIOUS
  <2>2. \E i \in at : \A j \in at : i <= j
    <3> HIDE DEF at
    <3> QED
      BY <1>2, <2>1, LeastNatural
  <2> DEFINE first == CHOOSE i \in at : \A j \in at : i <= j
  <2>3. first \in 1 .. Len(text)
    BY <2>2
  <2>4. SubSeq(text, first, Len(text)) \in Seq(Lines)
    <3> HIDE DEF first
    <3> QED
      BY <2>3, SubSeqProperties
  <2> QED
    BY <1>2, <2>4 DEF Stored
<1> QED
  BY <1>1, <1>2

\* A text that begins with its subject is stored as it is.
LEMMA StoredWhole ==
  ASSUME NEW text \in Seq(Lines), BeginsWithSubject(text)
  PROVE  Stored(text) = text
<1> DEFINE at == {i \in DOMAIN text : text[i].verb = "Subject:"}
           first == CHOOSE i \in at : \A j \in at : i <= j
<1>1. 1 \in at /\ \A j \in at : 1 <= j
  BY DEF BeginsWithSubject
<1>2. first \in at /\ \A j \in at : first <= j
  BY <1>1
<1>3. first = 1
  BY <1>1, <1>2
<1>4. SubSeq(text, 1, Len(text)) = text
  BY SubSeqFull
<1> QED
  BY <1>1, <1>3, <1>4 DEF Stored

-----------------------------------------------------------------------------
(* What is found in the buffer.                                             *)

\* A RCPT or MAIL with an argument in brackets is taken at its word; else what
\* is found is an address, nobody or nothing.
LEMMA FoundIs ==
  ASSUME NEW received \in Seq(Lines), received # << >>
  PROVE  /\ Found(received) \in Addresses \cup {Nobody, Bare}
         /\ InBrackets(Head(received)) => Found(received) = Head(received).arg
<1> DEFINE at == {i \in DOMAIN received : InBrackets(received[i])}
           first == CHOOSE i \in at : \A j \in at : i <= j
<1>1. CASE at = {}
  <2>1. ~ InBrackets(received[1])
    BY <1>1
  <2> QED
    BY <1>1, <2>1 DEF Found
<1>2. CASE at # {}
  <2>1. at \in SUBSET Nat
    OBVIOUS
  <2>2. \E i \in at : \A j \in at : i <= j
    <3> HIDE DEF at
    <3> QED
      BY <1>2, <2>1, LeastNatural
  <2>3. first \in at /\ \A j \in at : first <= j
    BY <2>2
  <2>4. Found(received) = received[first].arg
    BY <1>2 DEF Found
  <2>5. InBrackets(received[1]) => first = 1
    <3>1. InBrackets(received[1]) => 1 \in at
      OBVIOUS
    <3>2. first \in Nat /\ first >= 1
      BY <2>3
    <3> HIDE DEF at, first
    <3> QED
      BY <2>3, <3>1, <3>2
  <2>6. InBrackets(received[first])
    BY <2>3
  <2> HIDE DEF first
  <2> QED
    BY <2>4, <2>5, <2>6 DEF InBrackets
<1> QED
  BY <1>1, <1>2

\* A MAIL or RCPT that is not malformed names what is found, or has borrowed it.
LEMMA OwnArgument ==
  ASSUME NEW received \in Seq(Lines), received # << >>,
         Head(received).verb \in {"MAIL", "RCPT"},
         Head(received).arg # Malformed, Head(received).arg # Bare
  PROVE  Found(received) = Head(received).arg
<1>1. Head(received) \in Lines
  OBVIOUS
<1>2. Head(received) \in Words
  BY <1>1 DEF Lines, Plain
<1>3. Head(received).arg \in Addresses \cup {Nobody, Bare, Malformed}
  BY <1>2 DEF Words
<1> QED
  BY <1>3, FoundIs DEF InBrackets

-----------------------------------------------------------------------------
(* Lines, one lemma per kind.                                               *)

\* HELO changes the stage, and nothing but the stage of an orderly dialogue.
LEMMA HeloKeeps ==
  ASSUME Dialogue, NEW line \in Lines, Helo(line)
  PROVE  Dialogue'
<1>1. meant' \in Letters
  BY ClientAddsType, LetterTypes DEF Dialogue, Helo
<1>2. odd' \subseteq Oddities
  BY DEF Dialogue, Helo, Odd, Oddities
<1>3. odd' = {} => Together'
  BY DEF Dialogue, Helo, Odd, Together, Stages
<1> QED
  BY <1>1, <1>2, <1>3 DEF Dialogue, Helo, SenderAgrees, Stages

\* MAIL begins a letter and the mail it is meant to be.
LEMMA MailFromKeeps ==
  ASSUME Dialogue, NEW received \in Seq(Lines), received # << >>,
         NEW line \in Lines, line = Head(received), MailFrom(line, received)
  PROVE  Dialogue'
<1>1. Found(received) \in Addresses \cup {Nobody}
  BY FoundIs DEF MailFrom
<1>2. line.arg # Bare => Found(received) = line.arg
  BY OwnArgument DEF MailFrom
<1>3. letter' \in Letters /\ meant' \in Letters
  BY <1>1, <1>2, ClientAddsType, LetterTypes DEF Dialogue, MailFrom
<1>4. odd' \subseteq Oddities
  BY DEF Dialogue, MailFrom, Odd, Borrows, Oddities
<1>5. odd' = {} => odd = {} /\ ~ sending /\ line.arg # Bare
  BY DEF MailFrom, Odd, Borrows
<1>6. odd' = {} => Together'
  BY <1>2, <1>5 DEF Dialogue, MailFrom, Together, Letters, NoLetter
<1>7. SenderAgrees'
  <2>1. SUFFICES ASSUME odd' \cap {"order", "words", "bare"} = {}
                 PROVE  letter'.from = meant'.from
    BY DEF SenderAgrees
  <2>2. ~ sending /\ line.arg # Bare
    BY <2>1 DEF MailFrom, Odd, Borrows
  <2> QED
    BY <1>2, <2>2 DEF Dialogue, MailFrom, Letters, NoLetter
<1>8. stage' = "Mail" /\ sending' = sending
  BY DEF MailFrom
<1> QED
  BY <1>3, <1>4, <1>6, <1>7, <1>8 DEF Dialogue, Stages

\* RCPT adds a recipient to both.
LEMMA RcptToKeeps ==
  ASSUME Dialogue, NEW received \in Seq(Lines), received # << >>,
         NEW line \in Lines, line = Head(received), RcptTo(line, received)
  PROVE  Dialogue'
<1>1. letter \in Letters /\ meant \in Letters /\ Found(received) \in Locals
  BY DEF Dialogue, RcptTo
<1>2. line.arg # Bare => Found(received) = line.arg
  BY OwnArgument DEF RcptTo
<1>3. letter' \in Letters /\ meant' \in Letters
  BY <1>1, <1>2, ClientAddsType, LetterTypes DEF RcptTo
<1>4. odd' \subseteq Oddities
  BY DEF Dialogue, RcptTo, Odd, Borrows, Oddities
<1>5. odd' = {} => /\ odd = {} /\ ~ sending /\ line.arg # Bare
                   /\ stage \in {"Mail", "Rcpt"}
  BY DEF RcptTo, Odd, Borrows
<1>6. odd' = {} => Together'
  BY <1>1, <1>2, <1>5 DEF Dialogue, RcptTo, Together, Letters
<1>7. letter'.tos # << >> /\ letter'.from = letter.from
  <2>1. Append(letter.tos, Found(received)) # << >>
    BY <1>1, LetterTypes
  <2> QED
    BY <1>1, <2>1 DEF RcptTo, Letters
<1>8. meant'.from = meant.from
  BY <1>1, ClientAddsType DEF RcptTo, Letters
<1>9. "order" \notin odd' => stage \in {"Mail", "Rcpt"}
  BY DEF RcptTo, Odd
<1>10. odd \subseteq odd' /\ stage' = "Rcpt" /\ sending' = sending
  BY DEF RcptTo, Odd
<1>11. SenderAgrees'
  BY <1>7, <1>8, <1>9, <1>10 DEF Dialogue, SenderAgrees
<1> QED
  BY <1>3, <1>4, <1>6, <1>7, <1>10, <1>11 DEF Dialogue, Stages

\* DATA makes the client send.
LEMMA StartDataKeeps ==
  ASSUME Dialogue, NEW line \in Lines, StartData(line)
  PROVE  Dialogue'
<1>1. meant' \in Letters /\ meant'.from = meant.from
  BY ClientAddsType DEF Dialogue, StartData
<1>2. odd \subseteq odd' /\ odd' \subseteq Oddities
  BY DEF Dialogue, StartData, Odd, Oddities
<1>3. odd' = {} => Together'
  BY DEF Dialogue, StartData, Odd, ClientAdds, Together
<1> QED
  BY <1>1, <1>2, <1>3 DEF Dialogue, StartData, SenderAgrees, Stages

\* A refusal changes nothing, except the text of a client that is sending.
LEMMA RefuseKeeps ==
  ASSUME Dialogue, NEW line \in Lines, NEW received, Refuse(line, received)
  PROVE  Dialogue'
<1>1. meant' \in Letters /\ meant'.from = meant.from
  BY ClientAddsType DEF Dialogue, Refuse
<1>2. odd \subseteq odd' /\ odd' \subseteq Oddities
  BY DEF Dialogue, Refuse, Oddities
<1>3. odd' = {} => Together'
  BY DEF Dialogue, Refuse, ClientAdds, Together
<1> QED
  BY <1>1, <1>2, <1>3 DEF Dialogue, Refuse, SenderAgrees

\* A line of the text is added to both.
LEMMA TextKeeps ==
  ASSUME Dialogue, NEW line \in Lines, Text(line)
  PROVE  Dialogue'
<1>1. /\ letter' \in Letters /\ meant' \in Letters
      /\ meant'.from = meant.from
  BY ClientAddsType, LetterTypes DEF Dialogue, Text
<1>2. letter'.tos = letter.tos /\ letter'.from = letter.from
  BY DEF Dialogue, Text, Letters
<1>3. odd' = {} => Together'
  BY DEF Dialogue, Text, ClientAdds, Together, Letters
<1> QED
  BY <1>1, <1>2, <1>3 DEF Dialogue, Text, SenderAgrees

\* A hasty end keeps the sender and the recipients, and is odd.
LEMMA HastyEndKeeps ==
  ASSUME Dialogue, NEW line \in Lines, NEW received, HastyEnd(line, received)
  PROVE  Dialogue'
<1>1. letter' \in Letters /\ meant' = meant
  BY LetterTypes DEF Dialogue, HastyEnd
<1>2. letter'.tos = letter.tos /\ letter'.from = letter.from
  BY DEF Dialogue, HastyEnd, Letters
<1>3. odd' # {} /\ odd \subseteq odd' /\ odd' \subseteq Oddities
  BY DEF Dialogue, HastyEnd, Oddities
<1> QED
  BY <1>1, <1>2, <1>3 DEF Dialogue, HastyEnd, SenderAgrees

\* RSET clears everything.
LEMMA RsetKeeps ==
  ASSUME Dialogue, NEW line \in Lines, Rset(line)
  PROVE  Dialogue'
<1>1. letter' \in Letters /\ meant' \in Letters
  BY ClientAddsType, LetterTypes DEF Dialogue, Rset
<1>2. odd' \subseteq Oddities
  BY DEF Dialogue, Rset, Oddities
<1>3. odd' = {} => Together'
  BY DEF Dialogue, Rset, Together, NoLetter
<1> QED
  BY <1>1, <1>2, <1>3 DEF Dialogue, Rset, SenderAgrees, Stages

\* A line that is ignored is at most a line of the client's text.
LEMMA IgnoreKeeps ==
  ASSUME Dialogue, NEW line \in Lines, Ignore(line)
  PROVE  Dialogue'
<1>1. meant' \in Letters /\ meant'.from = meant.from
  BY ClientAddsType DEF Dialogue, Ignore
<1>2. odd' = {} => Together'
  BY DEF Dialogue, Ignore, ClientAdds, Together, Stages
<1> QED
  BY <1>1, <1>2 DEF Dialogue, Ignore, SenderAgrees

\* A dialogue that ends leaves nothing behind.
LEMMA NewDialogueKeeps ==
  ASSUME NewDialogue
  PROVE  Dialogue'
<1>1. odd' = {} => Together'
  BY DEF NewDialogue, Together, NoLetter
<1> QED
  BY <1>1, LetterTypes DEF Dialogue, NewDialogue, SenderAgrees, Stages

\* The end of a text delivers the letter, and clears it.
LEMMA DeliverKeeps ==
  ASSUME Inv, NEW line \in Lines, NEW received, Deliver(line, received)
  PROVE  /\ Dialogue'
         /\ delivered' \in Deliveries
         /\ DeliversWhatWasMeant' /\ SenderIsMeant' /\ HasRecipient'
<1>1. letter \in Letters /\ letter.text \in Seq(Lines) /\ letter.tos # << >>
      /\ ~ Dies(letter.text)
  BY DEF Inv, TypeOK, Deliver, Letters
<1> DEFINE mail == [letter EXCEPT !.text = Stored(letter.text)]
<1>2. delivered' = [mail |-> mail, meant |-> meant, odd |-> OddAtEnd]
  BY DEF Deliver
<1>3. mail \in Letters /\ mail.tos = letter.tos /\ mail.from = letter.from
  BY <1>1, StoredType DEF Letters
<1>4. Dialogue'
  <2>1. Together'
    BY DEF Deliver, Together, NoLetter
  <2> QED
    BY <2>1, LetterTypes DEF Dialogue, Deliver, SenderAgrees, Stages
<1>5. delivered' \in Deliveries
  <2>1. meant \in Letters /\ OddAtEnd \in SUBSET Oddities
    BY DEF Inv, TypeOK, OddAtEnd, Oddities
  <2> HIDE DEF mail
  <2> QED
    BY <1>2, <1>3, <2>1 DEF Deliveries
<1>6. DeliversWhatWasMeant'
  <2>1. SUFFICES ASSUME OddAtEnd = {}
                 PROVE  mail = meant
    BY <1>2 DEF DeliversWhatWasMeant
  <2>2. odd = {} /\ BeginsWithSubject(letter.text)
    BY <2>1 DEF OddAtEnd
  <2>3. mail = letter
    BY <1>1, <2>2, StoredWhole DEF Letters
  <2> QED
    BY <2>2, <2>3 DEF Inv, Together, Deliver
<1>7. HasRecipient'
  BY <1>1, <1>2, <1>3 DEF HasRecipient
<1>8. SenderIsMeant'
  <2>1. SUFFICES ASSUME OddAtEnd \cap {"order", "words", "bare"} = {}
                 PROVE  mail.from = meant.from
    <3> HIDE DEF mail
    <3> QED
      BY <1>2 DEF SenderIsMeant
  <2>2. odd \cap {"order", "words", "bare"} = {}
    BY <2>1 DEF OddAtEnd
  <2>3. letter.from = meant.from
    BY <2>2 DEF Inv, SenderAgrees, Deliver
  <2> QED
    BY <1>3, <2>3
<1> QED
  BY <1>4, <1>5, <1>6, <1>7, <1>8

-----------------------------------------------------------------------------
(* The theorems.                                                            *)

\* Nothing delivered is a delivery of which the properties hold.
LEMMA NothingDelivered ==
  ASSUME delivered' = NoDelivery
  PROVE  /\ delivered' \in Deliveries
         /\ DeliversWhatWasMeant' /\ SenderIsMeant' /\ HasRecipient'
<1>1. /\ NoDelivery \in Deliveries
      /\ NoDelivery.mail = NoDelivery.meant
  BY LetterTypes DEF NoDelivery, Deliveries
<1> QED
  BY <1>1 DEF DeliversWhatWasMeant, SenderIsMeant, HasRecipient

\* No line of a dialogue breaks the invariant, whatever is received behind it.
LEMMA HandleNextKeepsInv ==
  ASSUME Inv, NEW received \in Seq(Lines), received # << >>,
         Len(received) <= MaxBuffer + 1, HandleNext(received)
  PROVE  Inv'
<1> DEFINE line == Head(received)
<1>1. line \in Lines
  OBVIOUS
<1>2. Dialogue
  BY DEF Inv, TypeOK, Dialogue
<1>3. << >> \in Seq(Lines) /\ Len(<< >>) <= MaxBuffer
  BY LimitAssumption
<1>4. CASE /\ Handle(line, received)
           /\ buffer' = Tail(received) /\ delivered' = NoDelivery
  <2>1. Dialogue'
    <3> HIDE DEF line
    <3>1. line = Head(received)
      BY DEF line
    <3>2. CASE Helo(line)
      BY <1>1, <1>2, <3>2, HeloKeeps
    <3>3. CASE MailFrom(line, received)
      BY <1>1, <1>2, <3>1, <3>3, MailFromKeeps
    <3>4. CASE RcptTo(line, received)
      BY <1>1, <1>2, <3>1, <3>4, RcptToKeeps
    <3>5. CASE StartData(line)
      BY <1>1, <1>2, <3>5, StartDataKeeps
    <3>6. CASE Refuse(line, received)
      BY <1>1, <1>2, <3>6, RefuseKeeps
    <3>7. CASE Text(line)
      BY <1>1, <1>2, <3>7, TextKeeps
    <3>8. CASE HastyEnd(line, received)
      BY <1>1, <1>2, <3>8, HastyEndKeeps
    <3>9. CASE Rset(line)
      BY <1>1, <1>2, <3>9, RsetKeeps
    <3>10. CASE Ignore(line)
      BY <1>1, <1>2, <3>10, IgnoreKeeps
    <3> QED
      BY <1>4, <3>2, <3>3, <3>4, <3>5, <3>6, <3>7, <3>8, <3>9, <3>10 DEF Handle
  <2>2. buffer' \in Seq(Lines) /\ Len(buffer') <= MaxBuffer
    BY <1>4, LimitAssumption
  <2> QED
    BY <1>4, <2>1, <2>2, NothingDelivered DEF Inv, TypeOK, Dialogue
<1>5. CASE Deliver(line, received) /\ buffer' = << >>
  <2> HIDE DEF line
  <2>1. /\ Dialogue'
        /\ delivered' \in Deliveries
        /\ DeliversWhatWasMeant' /\ SenderIsMeant' /\ HasRecipient'
    BY <1>1, <1>5, DeliverKeeps
  <2> QED
    BY <1>3, <1>5, <2>1 DEF Inv, TypeOK, Dialogue
<1>6. CASE /\ End(line, received)
           /\ buffer' = << >> /\ delivered' = NoDelivery
  <2>1. Dialogue'
    BY <1>6, NewDialogueKeeps DEF End, Quit, Die
  <2> QED
    BY <1>3, <1>6, <2>1, NothingDelivered DEF Inv, TypeOK, Dialogue
<1> QED
  BY <1>4, <1>5, <1>6 DEF HandleNext

\* No step of a dialogue breaks the invariant.
LEMMA NextKeepsInv ==
  ASSUME Inv, [Next]_vars
  PROVE  Inv'
<1>1. buffer \in Seq(Lines) /\ Len(buffer) \in Nat /\ Len(buffer) <= MaxBuffer
  BY DEF Inv, TypeOK
<1>2. CASE buffer # << >> /\ HandleNext(buffer)
  BY <1>1, <1>2, LimitAssumption, HandleNextKeepsInv
<1>3. ASSUME NEW n \in 1 .. (MaxBuffer + 1 - Len(buffer)),
             NEW more \in [1 .. n -> Lines],
             HandleNext(buffer \o more)
      PROVE  Inv'
  <2>1. n \in Nat /\ n >= 1
    BY <1>1, LimitAssumption
  <2>2. more \in Seq(Lines) /\ Len(more) = n
    BY <2>1
  <2> DEFINE received == buffer \o more
  <2>3. received \in Seq(Lines) /\ Len(received) = Len(buffer) + n
    BY <1>1, <2>2
  <2>4. received # << >> /\ Len(received) <= MaxBuffer + 1
    BY <1>1, <2>1, <2>3, LimitAssumption
  <2>5. HandleNext(received)
    BY <1>3
  <2> HIDE DEF received
  <2> QED
    BY <2>3, <2>4, <2>5, HandleNextKeepsInv
<1>4. CASE UNCHANGED vars
  BY <1>4 DEF Inv, TypeOK, Together, SenderAgrees, DeliversWhatWasMeant,
              SenderIsMeant, HasRecipient, vars
<1> QED
  BY <1>2, <1>3, <1>4 DEF Next

\* The invariant holds in every state of every dialogue.
LEMMA InvAlways == Spec => []Inv
<1>1. Init => Inv
  <2>1. NoDelivery \in Deliveries
    BY LetterTypes DEF NoDelivery, Deliveries
  <2>2. NoDelivery.mail = NoDelivery.meant
    BY DEF NoDelivery
  <2>3. NoLetter.tos = << >> /\ NoLetter.text = << >>
    BY DEF NoLetter
  <2>4. Init => buffer \in Seq(Lines) /\ Len(buffer) <= MaxBuffer
    BY LimitAssumption DEF Init
  <2>5. Init => Dialogue
    BY <2>3, LetterTypes DEF Init, Dialogue, Together, SenderAgrees, Stages
  <2>6. Init => DeliversWhatWasMeant /\ SenderIsMeant /\ HasRecipient
    BY <2>2 DEF Init, DeliversWhatWasMeant, SenderIsMeant, HasRecipient
  <2>7. Init => delivered \in Deliveries
    BY <2>1 DEF Init
  <2> QED
    BY <2>4, <2>5, <2>6, <2>7 DEF Inv, TypeOK, Dialogue
<1>2. Inv /\ [Next]_vars => Inv'
  BY NextKeepsInv
<1> QED
  BY <1>1, <1>2, PTL DEF Spec

\* The types of the dialogue, for any addresses and lengths.
THEOREM TypeCorrect == Spec => []TypeOK
<1>1. Inv => TypeOK
  BY DEF Inv
<1> QED
  BY <1>1, InvAlways, PTL

\* Orderly dialogues deliver the mail their client meant, however many mails and
\* given up transactions came before, and however its lines were received.
THEOREM MeantIsDelivered == Spec => []DeliversWhatWasMeant
<1>1. Inv => DeliversWhatWasMeant
  BY DEF Inv
<1> QED
  BY <1>1, InvAlways, PTL

\* No order of commands delivers a mail without a recipient.
THEOREM DeliveredHasRecipient == Spec => []HasRecipient
<1>1. Inv => HasRecipient
  BY DEF Inv
<1> QED
  BY <1>1, InvAlways, PTL

\* Nor one under a sender that its client did not name for it, unless RCPT was
\* out of its place, a line of the text was a command, or an address borrowed.
THEOREM DeliveredUnderItsSender == Spec => []SenderIsMeant
<1>1. Inv => SenderIsMeant
  BY DEF Inv
<1> QED
  BY <1>1, InvAlways, PTL

=============================================================================
