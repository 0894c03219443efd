--------------------------- MODULE MCCampaignEngine ---------------------------
(* Model-checking instances of CampaignEngine: one campaign of three members *)
(* and a single message to the member of its first and last items.           *)
EXTENDS CampaignEngine

CONSTANTS Wizard, Reminder, i1, i2, i3, i4, dana, yosef, first, second, third

MCQueue == [c \in Campaigns |-> IF c = Wizard THEN <<i1, i2, i3>> ELSE <<i4>>]
MCPhone == [i \in Items |-> IF i = i2 THEN yosef ELSE dana]

\* no member is sent the same text twice
DistinctText == [i \in Items |-> IF i = i1 THEN first ELSE IF i = i3 THEN second ELSE third]

\* the single message repeats the campaign's reminder
RepeatedText == [i \in Items |-> first]

===============================================================================
