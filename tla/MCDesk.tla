------------------------------- MODULE MCDesk --------------------------------
(***************************************************************************)
(* A small instance of Desk.  Its modules share no variable, so one run    *)
(* checks them side by side: "part" says which of them a behaviour is      *)
(* about, and the others stay as they start.                               *)
(***************************************************************************)
EXTENDS Desk

VARIABLE part

\* Numbers of two to three digits: a mobile is 5 and another digit, with the leading
\* zero, with the country's code, or foreign; and a landline and two numbers in one field.
Digits(digits, plus) == [digits |-> digits, plus |-> plus]
MCTexts ==
    {<<>>, <<Digits(<<>>, FALSE)>>, <<Digits(<<0, 5, 1>>, FALSE)>>,
     <<Digits(<<9, 5, 1>>, TRUE)>>, <<Digits(<<0, 2, 1>>, FALSE)>>,
     <<Digits(<<1, 2, 1>>, TRUE), Digits(<<5, 2>>, FALSE)>>}
MCMemberNames ==
    {[first |-> <<"dana">>, last |-> <<>>], [first |-> <<"dana">>, last |-> <<"levi">>]}
MCCodes == {<<9>>, <<1>>}

MCTemplate == [id |-> "template", body |-> "dear"]
MCLists == {<<>>, <<MCTemplate>>}

Line(maybe, words) == [maybe |-> maybe, words |-> words]
MCBody == <<Line(FALSE, <<"first_name">>), Line(TRUE, <<"amount">>)>>
MCLetters == {<<>>, MCBody, <<Line(FALSE, <<"frist_name">>)>>}
MCNoLetter == <<>>
MCSeededLetters == <<[name |-> 1, body |-> MCBody]>>
MCValue == [m \in {"m1"} |-> [first_name |-> "dana"]]

MCSeededValues == [occasion |-> <<"shabbat">>, payment_method |-> <<"cash">>]

memberVars == <<member, sequence, memberSetting, memberDialog>>
printVars == <<receipt, archive, folder, load, receiptDialog, job>>
messageVars == <<mode, template, mobile, payment, told, campaign, requests, messageDialog,
                 sending>>
itemVars == <<item, request, list, draft, itemDialog>>
setupVars == <<stored, completed, next, issued, app, wizard, settingsPage>>
sendVars == <<login, sender, message, timer, previews, operation, sent, active>>
textVars == <<text, editor, texts, rest, asked>>
lookupVars == <<value, lookupsTab, pressed>>
deskVars == <<part, vars, memberVars, printVars, messageVars, itemVars, setupVars,
              sendVars, textVars, lookupVars>>

DeskInit ==
    /\ part \in {"access", "members", "print", "messages", "honours", "setup", "send",
                "texts", "lists"}
    /\ Init /\ P!Init /\ S!Init
    /\ IF part = "members" THEN M!Init
       ELSE /\ member = <<>> /\ sequence = 1 /\ memberDialog = M!Closed
            /\ memberSetting = [mode |-> "split", code |-> <<9>>]
    /\ IF part = "messages" THEN E!Init
       ELSE /\ mode = [kind \in E!Kinds |-> "off"] /\ template = {} /\ mobile = FALSE
            /\ payment = [p \in Payments |-> "none"] /\ told = <<>> /\ campaign = <<>>
            /\ requests = <<>> /\ sending = 0
            /\ messageDialog = [draft |-> E!NoDraft, busy |-> FALSE]
    /\ IF part = "honours" THEN V!Init
       ELSE /\ list = [filter |-> {"a"}, wants |-> 1, loading |-> TRUE, data |-> {}]
            /\ item = <<>> /\ request = <<V!ListRequest(list.filter)>> /\ draft = V!Closed
            /\ itemDialog = [key |-> V!None, local |-> V!Closed]
    /\ IF part = "send" THEN G!Init
       ELSE /\ login = FALSE /\ sender = G!Mounted /\ message = G!NoDraft /\ timer = FALSE
            /\ previews = <<>> /\ operation = G!Idle /\ sent = <<>> /\ active = G!NoRun
    /\ T!Init /\ L!Init

DeskNext ==
    /\ UNCHANGED part
    /\ \/ /\ part = "access" /\ Next
          /\ UNCHANGED <<memberVars, printVars, messageVars, itemVars, setupVars,
                         sendVars, textVars, lookupVars>>
       \/ /\ part = "members" /\ M!Next
          /\ UNCHANGED <<vars, printVars, messageVars, itemVars, setupVars,
                         sendVars, textVars, lookupVars>>
       \/ /\ part = "print" /\ P!Next
          /\ UNCHANGED <<vars, memberVars, messageVars, itemVars, setupVars,
                         sendVars, textVars, lookupVars>>
       \/ /\ part = "messages" /\ E!Next
          /\ UNCHANGED <<vars, memberVars, printVars, itemVars, setupVars,
                         sendVars, textVars, lookupVars>>
       \/ /\ part = "honours" /\ V!Next
          /\ UNCHANGED <<vars, memberVars, printVars, messageVars, setupVars,
                         sendVars, textVars, lookupVars>>
       \/ /\ part = "setup" /\ S!Next
          /\ UNCHANGED <<vars, memberVars, printVars, messageVars, itemVars,
                         sendVars, textVars, lookupVars>>
       \/ /\ part = "send" /\ G!Next
          /\ UNCHANGED <<vars, memberVars, printVars, messageVars, itemVars, setupVars,
                         textVars, lookupVars>>
       \/ /\ part = "texts" /\ T!Next
          /\ UNCHANGED <<vars, memberVars, printVars, messageVars, itemVars, setupVars,
                        sendVars, lookupVars>>
       \/ /\ part = "lists" /\ L!Next
          /\ UNCHANGED <<vars, memberVars, printVars, messageVars, itemVars, setupVars,
                         sendVars, textVars>>

DeskSpec == DeskInit /\ [][DeskNext]_deskVars
==============================================================================
