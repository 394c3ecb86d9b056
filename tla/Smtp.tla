--------------------------------- MODULE Smtp ---------------------------------
(***************************************************************************)
(* A dialogue of mailWorker, the SMTP service's thread, with a client that *)
(* may send any line at any time.  The storing of the mail, one recipient  *)
(* after the other, is in module Mailbox.                                  *)
(***************************************************************************)
EXTENDS Integers, Sequences, FiniteSets

CONSTANTS
    Locals,      \* addresses ending in @localhost, sent in brackets
    Others,      \* other addresses with an @, sent in brackets
    Nobody,      \* the empty string: sent as <>, and before a sender is named
    Bare,        \* no argument, or one with neither a bracket nor an @
    Malformed,   \* MAIL and RCPT that go on otherwise than FROM: and TO:
    MaxTos,      \* bound: a mail of so many recipients gets no RCPT any more
    MaxText,     \* bound: a text of so many lines gets only its end
    MaxBuffer    \* bound: lines received behind the one that is handled

Addresses == Locals \cup Others

ASSUME AddressAssumption ==
    /\ Locals \cap Others = {}
    /\ {Nobody, Bare, Malformed} \cap Addresses = {}
    /\ Nobody # Bare /\ Nobody # Malformed /\ Bare # Malformed
ASSUME LimitAssumption == MaxTos \in Nat /\ MaxText \in Nat /\ MaxBuffer \in Nat

\* Lines by what mailWorker tells apart.  By characters, the end of line
\* included, "." has 3, "short" 5 to 7 and "long" 8 or more, see Dies.
Words == [verb : {"HELO", "DATA"}, arg : {Bare}]
         \cup [verb : {"MAIL", "RCPT"}, arg : Addresses \cup {Nobody, Bare, Malformed}]

Plain == [verb : {".", "QUIT", "RSET", "NOOP", "Subject:", "short", "long"},
          arg : {Bare}]

Lines == Words \cup Plain

Stages == {"Begin", "Helo", "Mail", "Rcpt", "Data", "Done"}

Letters == [from : Addresses \cup {Nobody}, tos : Seq(Locals), text : Seq(Lines)]

NoLetter == [from |-> Nobody, tos |-> << >>, text |-> << >>]

\* Departures from an orderly dialogue, since the last mail or RSET.
Oddities == {"helo",    \* HELO while there are recipients or text
             "order",   \* RCPT outside the stages Mail and Rcpt
             "words",   \* a line of the text begins like a command
             "bare",    \* MAIL or RCPT took the address of a line behind it
             "hasty",   \* lines were received behind the end of the text
             "subject"} \* the text does not begin with a subject

Deliveries == [mail : Letters, meant : Letters, odd : SUBSET Oddities]

NoDelivery == [mail |-> NoLetter, meant |-> NoLetter, odd |-> {}]

VARIABLES
    buffer,     \* lines received and not handled; the last may be incomplete
    stage,      \* the stage of the dialogue
    letter,     \* from, tos and mail of mailWorker
    delivered,  \* the mail handed to its recipients' mailboxes in the last step
    \* The client, and what only observes.
    sending,    \* the client is sending a text: 354 was the answer to DATA
    meant,      \* the mail as the client has put it together
    odd         \* what has been odd about the current mail

vars == <<buffer, stage, letter, delivered, sending, meant, odd>>

Init ==
    /\ buffer = << >>
    /\ stage = "Begin" /\ letter = NoLetter
    /\ delivered = NoDelivery
    /\ sending = FALSE /\ meant = NoLetter /\ odd = {}

-----------------------------------------------------------------------------
(* Commands, recognised in every stage by the beginning of the line, even   *)
(* inside a text.  While the client is sending, every line is text to it.   *)

\* A client that is sending has added the line to its text.
ClientAdds(line) ==
    IF sending THEN [meant EXCEPT !.text = Append(@, line)] ELSE meant

Odd(line) ==
    odd \cup (IF sending THEN {"words"} ELSE {})
        \cup (IF line.verb = "HELO" /\ (letter.tos # << >> \/ letter.text # << >>)
              THEN {"helo"} ELSE {})
        \cup (IF line.verb = "RCPT" /\ stage \notin {"Mail", "Rcpt"}
              THEN {"order"} ELSE {})

\* HELO, whose test of the stage (stage == Begin || Helo) always holds.  It
\* clears nothing; to the client it starts anew.
Helo(line) ==
    /\ line.verb = "HELO"
    /\ stage' = "Helo"
    /\ meant' = IF sending THEN ClientAdds(line) ELSE NoLetter
    /\ odd' = Odd(line)
    /\ UNCHANGED <<letter, sending>>

\* Searching for a bracket or an @, strstr goes on behind the line, through all
\* that has been received.  The first argument in brackets that it meets; Bare
\* if there is none.
InBrackets(line) == line.arg \in Addresses \cup {Nobody}

Found(received) ==
    LET at == {i \in DOMAIN received : InBrackets(received[i])}
    IN  IF at = {} THEN Bare
        ELSE received[CHOOSE i \in at : \A j \in at : i <= j].arg

\* The line had no argument, yet one was found.
Borrows(line) == IF line.arg = Bare THEN {"bare"} ELSE {}

\* MAIL FROM:<sender>, in stage Helo only.  The empty sender is one too.
MailFrom(line, received) ==
    /\ line.verb = "MAIL" /\ line.arg # Malformed
    /\ stage = "Helo"
    /\ Found(received) # Bare
    /\ stage' = "Mail"
    /\ letter' = [letter EXCEPT !.from = Found(received)]
    /\ meant' = IF sending THEN ClientAdds(line)
                ELSE IF line.arg = Bare THEN NoLetter
                ELSE [NoLetter EXCEPT !.from = line.arg]
    /\ odd' = Odd(line) \cup Borrows(line)
    /\ UNCHANGED sending

\* A plausible mistake for RcptTo: the host is not looked at.
RcptToAny(line, received) ==
    /\ line.verb = "RCPT" /\ line.arg # Malformed
    /\ Found(received) \in Addresses
    /\ stage' = "Rcpt"
    /\ letter' = [letter EXCEPT !.tos = Append(@, Found(received))]
    /\ meant' = IF sending THEN ClientAdds(line)
                ELSE IF line.arg = Bare THEN meant
                ELSE [meant EXCEPT !.tos = Append(@, line.arg)]
    /\ odd' = Odd(line) \cup Borrows(line)
    /\ UNCHANGED sending

\* RCPT TO:<recipient>, whose test of the stage (stage == Mail || Rcpt) always
\* holds.
RcptTo(line, received) ==
    /\ line.verb = "RCPT" /\ line.arg # Malformed
    /\ Found(received) \in Locals
    /\ stage' = "Rcpt"
    /\ letter' = [letter EXCEPT !.tos = Append(@, Found(received))]
    /\ meant' = IF sending THEN ClientAdds(line)
                ELSE IF line.arg = Bare THEN meant
                ELSE [meant EXCEPT !.tos = Append(@, line.arg)]
    /\ odd' = Odd(line) \cup Borrows(line)
    /\ UNCHANGED sending

\* RCPT that finds <>, and an @ only behind it, copies a negative number of
\* characters: the process ends.
CopiesNegative(line, received) ==
    /\ line.verb = "RCPT" /\ line.arg # Malformed
    /\ Found(received) = Nobody
    /\ \E i \in DOMAIN received : received[i].arg \in Addresses

\* A plausible mistake for StartData: a sender is enough.
StartDataEarly(line) ==
    /\ line.verb = "DATA"
    /\ stage \in {"Mail", "Rcpt"}
    /\ stage' = "Data"
    /\ sending' = TRUE
    /\ meant' = ClientAdds(line)
    /\ odd' = Odd(line)
    /\ UNCHANGED letter

\* A plausible mistake for StartData: there are recipients, whatever the stage.
StartDataAnywhere(line) ==
    /\ line.verb = "DATA"
    /\ letter.tos # << >>
    /\ stage' = "Data"
    /\ sending' = TRUE
    /\ meant' = ClientAdds(line)
    /\ odd' = Odd(line)
    /\ UNCHANGED letter

\* DATA, in stage Rcpt only: the client begins its text.
StartData(line) ==
    /\ line.verb = "DATA"
    /\ stage = "Rcpt"
    /\ stage' = "Data"
    /\ sending' = TRUE
    /\ meant' = ClientAdds(line)
    /\ odd' = Odd(line)
    /\ UNCHANGED letter

\* A command out of place, malformed, without an address or with one that is
\* elsewhere: 500, 501, 503 or 550.
Refuse(line, received) ==
    /\ \/ line.arg = Malformed
       \/ line.verb = "MAIL" /\ stage # "Helo"
       \/ line.verb = "MAIL" /\ Found(received) = Bare
       \/ /\ line.verb = "RCPT" /\ Found(received) \notin Locals
          /\ ~ CopiesNegative(line, received)
       \/ line.verb = "DATA" /\ stage # "Rcpt"
    /\ meant' = ClientAdds(line)
    /\ odd' = IF sending THEN odd \cup {"words"} ELSE odd
    /\ UNCHANGED <<stage, letter, sending>>

-----------------------------------------------------------------------------
(* The text.                                                                *)

\* strcmp compares all that has been received with the end of a text.
EndsText(line, received) == line.verb = "." /\ Len(received) = 1

\* Any other line, QUIT and RSET included, is text in stage Data, and has no
\* answer.
Text(line) ==
    /\ line \in Plain /\ line.verb # "."
    /\ stage = "Data"
    /\ letter' = [letter EXCEPT !.text = Append(@, line)]
    /\ meant' = ClientAdds(line)
    /\ UNCHANGED <<stage, sending, odd>>

\* So is an end of the text with lines behind it, though the client has done.
HastyEnd(line, received) ==
    /\ line.verb = "." /\ ~ EndsText(line, received)
    /\ stage = "Data"
    /\ letter' = [letter EXCEPT !.text = Append(@, line)]
    /\ sending' = FALSE
    /\ odd' = odd \cup {"hasty"}
    /\ UNCHANGED <<stage, meant>>

BeginsWithSubject(text) == text # << >> /\ Head(text).verb = "Subject:"

HasSubject(text) == \E i \in DOMAIN text : text[i].verb = "Subject:"

\* Without a subject mail.substr(8) is taken, which throws if there are fewer
\* than 8 characters, and nobody catches it: the process ends.
Dies(text) ==
    /\ ~ HasSubject(text)
    /\ \A i \in DOMAIN text : text[i].verb \in {".", "QUIT", "RSET", "NOOP", "short"}
    /\ Len(text) < 2 \/ (Len(text) = 2 /\ \A i \in DOMAIN text : text[i].verb = ".")

\* What is stored: the text from the subject on; without one, a text that lacks
\* its first characters (the first line stands for them).
Stored(text) ==
    LET at == {i \in DOMAIN text : text[i].verb = "Subject:"}
    IN  IF at = {} THEN Tail(text)
        ELSE SubSeq(text, CHOOSE i \in at : \A j \in at : i <= j, Len(text))

OddAtEnd == odd \cup (IF BeginsWithSubject(letter.text) THEN {} ELSE {"subject"})

\* The end of the text: the mail goes to every recipient, and from, tos and
\* mail are cleared.
Deliver(line, received) ==
    /\ EndsText(line, received)
    /\ stage = "Data"
    /\ ~ Dies(letter.text)
    /\ stage' = "Done"
    /\ delivered' = [mail |-> [letter EXCEPT !.text = Stored(@)], meant |-> meant,
                     odd |-> OddAtEnd]
    /\ letter' = NoLetter
    /\ sending' = FALSE /\ meant' = NoLetter /\ odd' = {}

-----------------------------------------------------------------------------
(* Other lines outside stage Data, and the ends of a dialogue.              *)

\* A plausible mistake for Rset: the recipients are forgotten.
RsetKeepsTos(line) ==
    /\ line.verb = "RSET"
    /\ stage # "Data"
    /\ stage' = "Helo"
    /\ letter' = [letter EXCEPT !.from = Nobody, !.text = << >>]
    /\ meant' = IF sending THEN ClientAdds(line) ELSE NoLetter
    /\ odd' = IF sending THEN odd \cup {"words"} ELSE {}
    /\ UNCHANGED sending

\* RSET clears everything, and lets MAIL follow.
Rset(line) ==
    /\ line.verb = "RSET"
    /\ stage # "Data"
    /\ stage' = "Helo"
    /\ letter' = NoLetter
    /\ meant' = IF sending THEN ClientAdds(line) ELSE NoLetter
    /\ odd' = IF sending THEN odd \cup {"words"} ELSE {}
    /\ UNCHANGED sending

\* NOOP, and lines that are no command: 250 and 500.  The answer to the end of
\* a text tells the client that it has stopped sending.
Ignore(line) ==
    /\ line \in Plain /\ line.verb \notin {"RSET", "QUIT"}
    /\ stage # "Data"
    /\ sending' = (sending /\ line.verb # ".")
    /\ meant' = IF line.verb = "." THEN meant ELSE ClientAdds(line)
    /\ UNCHANGED <<stage, letter, odd>>

\* A new connection has a new thread, with variables of its own.
NewDialogue ==
    /\ stage' = "Begin" /\ letter' = NoLetter
    /\ sending' = FALSE /\ meant' = NoLetter /\ odd' = {}

\* QUIT closes the connection; the client may come back.
Quit(line) ==
    /\ line.verb = "QUIT"
    /\ stage # "Data"
    /\ NewDialogue

\* The end of a text that is too short, or a RCPT that copies a negative number
\* of characters: the service dies and is started again.
Die(line, received) ==
    /\ \/ stage = "Data" /\ EndsText(line, received) /\ Dies(letter.text)
       \/ CopiesNegative(line, received)
    /\ NewDialogue

Handle(line, received) ==
    \/ Helo(line) \/ MailFrom(line, received) \/ RcptTo(line, received)
    \/ StartData(line) \/ Refuse(line, received)
    \/ Text(line) \/ HastyEnd(line, received)
    \/ Rset(line) \/ Ignore(line)

\* Lines that end the dialogue, and what was received behind them is lost.
End(line, received) == Quit(line) \/ Die(line, received)

\* The next line is handled with all that has been received.  More is received
\* only when no complete line is left, so when the buffer has one at most.
HandleNext(received) ==
    LET line == Head(received)
    IN  \/ /\ Handle(line, received)
          /\ buffer' = Tail(received) /\ delivered' = NoDelivery
       \/ /\ Deliver(line, received)
          /\ buffer' = << >>
       \/ /\ End(line, received)
          /\ buffer' = << >> /\ delivered' = NoDelivery

\* Lines are sent while the texts have room for them, and else one by one, in a
\* text its end only; a mail with MaxTos recipients has no RCPT.
Sends(more) ==
    /\ \/ Len(letter.text) < MaxText /\ Len(meant.text) < MaxText
       \/ /\ buffer = << >> /\ Len(more) = 1
          /\ (stage = "Data" \/ sending) => more[1].verb = "."
    /\ Len(letter.tos) < MaxTos \/ \A i \in DOMAIN more : more[i].verb # "RCPT"

Next ==
    \/ buffer # << >> /\ HandleNext(buffer)
    \/ /\ Len(buffer) <= 1
       /\ \E n \in 1 .. (MaxBuffer + 1 - Len(buffer)) : \E more \in [1 .. n -> Lines] :
             Sends(more) /\ HandleNext(buffer \o more)

Spec == Init /\ [][Next]_vars

-----------------------------------------------------------------------------
(* Properties.                                                              *)

\* Types of all variables.
TypeOK ==
    /\ buffer \in Seq(Lines) /\ Len(buffer) <= MaxBuffer
    /\ stage \in Stages
    /\ letter \in Letters /\ meant \in Letters
    /\ delivered \in Deliveries
    /\ sending \in BOOLEAN
    /\ odd \subseteq Oddities

\* A mail whose dialogue was orderly since the mail before it, or since RSET,
\* is delivered with the sender, the recipients and the text its client meant,
\* whatever the dialogue was like before, and however many of its lines were
\* received together: nothing is left over of mails delivered, given up or
\* refused in between.  Orderly is also to send nothing behind the end of a
\* text before its answer, to which strcmp of the whole buffer holds clients.
DeliversWhatWasMeant ==
    delivered.odd = {} => delivered.mail = delivered.meant

\* Whatever the client sends, a mail has a recipient, and the text it
\* acknowledged is not thrown away for want of one.
HasRecipient == delivered # NoDelivery => delivered.mail.tos # << >>

\* A mail goes out under the sender, the empty one included, that its client
\* named for it, also when HELO gave up a mail in the middle, an end of a text
\* became text, or the text has no subject.  Only a RCPT out of its place, a
\* command in the text and an address borrowed from a line behind change it.
SenderIsMeant ==
    delivered.odd \cap {"order", "words", "bare"} = {}
        => delivered.mail.from = delivered.meant.from

=============================================================================
