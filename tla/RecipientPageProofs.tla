------------------------- MODULE RecipientPageProofs -------------------------
(***************************************************************************)
(* Safety of the recipient pages, for every number of tabs and requests,   *)
(* on top of the delivery's invariant.                                     *)
(***************************************************************************)
EXTENDS RecipientPage, SecretDeliveryProofs

PageTypes ==
    /\ page \in [Pages -> PageRecords]
    /\ asked \in [Requests -> Passwords \cup {Null}]

(* What the script relies on from one handler of a page to the next.       *)
Fits(pg) ==
    /\ pg.call = "prepare" <=> pg.view = "loading"
    /\ pg.call \in Requests <=> pg.view = "submitting"
    /\ pg.token <=> pg.view \notin {"closed", "revealed", "unavailable"}
    /\ pg.call \in Requests \/ pg.retry = "reveal" => pg.chosen

(* A request belongs to the one page that sent it.                         *)
CallsAreOwn ==
    /\ \A g \in Pages :
          page[g].call \in Requests => asked[page[g].call] # Null
    /\ \A g, h \in Pages :
          page[g].call \in Requests /\ page[g].call = page[h].call => g = h

(* The request that revealed is answered, and no page can show its answer  *)
(* a second time.                                                          *)
AnswerIsTaken ==
    \E r \in Requests :
        /\ pc[r] = "revealed"
        /\ asked[r] # Null
        /\ \A g \in Pages : page[g].call # r

PageInv ==
    /\ PageTypes
    /\ \A g \in Pages : Fits(page[g])
    /\ CallsAreOwn
    /\ \A g \in Pages : page[g].shown => AnswerIsTaken
    /\ \A g, h \in Pages : page[g].shown /\ page[h].shown => g = h

(* Only a request that completed the consume replies.                      *)
RepliesAreCompleted ==
    \A r \in Requests : pc[r] \in {"replying", "revealed"} => r \in completedBy

LEMMA InitPage == PageInit => PageInv
BY PageAssumption
   DEF PageInit, PageInv, PageTypes, PageRecords, Fresh, Fits, CallsAreOwn

---------------------------------------------------------------------------
(* What the functions of the script leave behind *)

LEMMA FreshFits ==
    /\ Fresh \in PageRecords /\ Fits(Fresh) /\ ~Fresh.shown
    /\ Fresh.call = "none" /\ Fresh.retry = "prepare"
BY PageAssumption DEF Fresh, PageRecords, Fits

LEMMA UnavailableFits ==
    ASSUME NEW pg \in PageRecords, pg.retry = "reveal" => pg.chosen
    PROVE  /\ Unavailable(pg) \in PageRecords /\ Fits(Unavailable(pg))
           /\ Unavailable(pg).call = "none"
           /\ Unavailable(pg).shown = pg.shown
BY PageAssumption DEF Unavailable, PageRecords, Fits

LEMMA NetworkErrorFits ==
    ASSUME NEW pg \in PageRecords, NEW action \in {"prepare", "reveal"},
           pg.token, action = "reveal" => pg.chosen
    PROVE  /\ NetworkError(pg, action) \in PageRecords
           /\ Fits(NetworkError(pg, action))
           /\ NetworkError(pg, action).call = "none"
           /\ NetworkError(pg, action).shown = pg.shown
BY PageAssumption DEF NetworkError, PageRecords, Fits

LEMMA PrepareFits ==
    ASSUME NEW pg \in PageRecords, pg.retry = "reveal" => pg.chosen
    PROVE  /\ Prepare(pg) \in PageRecords /\ Fits(Prepare(pg))
           /\ Prepare(pg).call \in {"none", "prepare"}
           /\ Prepare(pg).shown = pg.shown
<1>1. CASE pg.token \/ pg.address
  BY <1>1, PageAssumption DEF Prepare, PageRecords, Fits
<1>2. CASE ~(pg.token \/ pg.address)
  BY <1>2, UnavailableFits DEF Prepare, SessionLost
<1> QED
  BY <1>1, <1>2

LEMMA SubmittedFits ==
    ASSUME NEW pg \in PageRecords, NEW r \in Requests, pg.token, pg.chosen
    PROVE  /\ Submitted(pg, r) \in PageRecords /\ Fits(Submitted(pg, r))
           /\ Submitted(pg, r).call = r
           /\ Submitted(pg, r).shown = pg.shown
BY PageAssumption DEF Submitted, PageRecords, Fits

LEMMA PreparedFits ==
    ASSUME NEW pg \in PageRecords, Fits(pg), pg.call = "prepare"
    PROVE  /\ Prepared(pg) \in PageRecords /\ Fits(Prepared(pg))
           /\ Prepared(pg).call = "none"
           /\ Prepared(pg).shown = pg.shown
<1>1. CASE pg.reply = "no"
  BY <1>1, UnavailableFits DEF Prepared, Fits
<1>2. CASE pg.reply # "no"
  BY <1>2, PageAssumption DEF Prepared, PageRecords, Fits
<1> QED
  BY <1>1, <1>2

(* The answers other than the secret. *)
LEMMA AnsweredFits ==
    ASSUME NEW pg \in PageRecords, Fits(pg), pg.call \in Requests,
           NEW answer, answer # "revealed"
    PROVE  /\ Answered(pg, answer) \in PageRecords
           /\ Fits(Answered(pg, answer))
           /\ Answered(pg, answer).call = "none"
           /\ Answered(pg, answer).shown = pg.shown
<1>1. CASE answer = "invalid"
  BY <1>1, PageAssumption DEF Answered, PageRecords, Fits
<1>2. CASE answer \in {"locked", "unavailable"}
  BY <1>2, UnavailableFits DEF Answered, Fits
<1>3. CASE answer \notin {"invalid", "locked", "unavailable"}
  <2>1. Answered(pg, answer) = NetworkError(pg, "reveal")
    BY <1>3 DEF Answered
  <2> QED
    BY <2>1, NetworkErrorFits DEF Fits
<1> QED
  BY <1>1, <1>2, <1>3

---------------------------------------------------------------------------
(* Steps of the pages *)

(* A page that sends no request and shows no secret it did not show.       *)
LEMMA PageMoves ==
    ASSUME PageInv, NEW g \in Pages, NEW pg \in PageRecords, Fits(pg),
           SetPage(g, pg), UNCHANGED <<pc, asked>>,
           pg.call \in {"none", "prepare", page[g].call},
           pg.shown => page[g].shown
    PROVE  PageInv'
<1>1. page' = [page EXCEPT ![g] = pg] /\ PageTypes
  BY DEF SetPage, PageInv
<1>2. \A h \in Pages : page'[h] = IF h = g THEN pg ELSE page[h]
  BY <1>1 DEF PageTypes
<1>3. \A h \in Pages : page'[h].call \in Requests => page'[h].call = page[h].call
  BY <1>2, PageAssumption
<1>4. \A h \in Pages : page'[h].shown => page[h].shown
  BY <1>2
<1>5. PageTypes'
  BY <1>1 DEF PageTypes
<1>6. \A h \in Pages : Fits(page'[h])
  BY <1>2 DEF PageInv
<1>7. CallsAreOwn'
  BY <1>3 DEF PageInv, CallsAreOwn
<1>8. AnswerIsTaken => AnswerIsTaken'
  BY <1>3 DEF AnswerIsTaken
<1> QED
  BY <1>4, <1>5, <1>6, <1>7, <1>8 DEF PageInv, Fits

LEMMA RevealSteps ==
    ASSUME PageInv, NEW g \in Pages, NEW pg \in PageRecords, Reveal(g, pg),
           pg.chosen, pg.shown = page[g].shown, UNCHANGED pc
    PROVE  PageInv'
<1>1. CASE ~pg.token
  BY <1>1, UnavailableFits, PageMoves DEF Reveal, SessionLost
<1>2. CASE pg.token
  <2>1. PICK r \in Requests : /\ asked[r] = Null
                              /\ asked' = [asked EXCEPT ![r] = pg.typed]
                              /\ SetPage(g, Submitted(pg, r))
    BY <1>2 DEF Reveal
  <2> DEFINE sent == Submitted(pg, r)
  <2>2. /\ sent \in PageRecords /\ Fits(sent) /\ sent.call = r
        /\ sent.shown = page[g].shown
    BY <1>2, SubmittedFits
  <2>3. PageTypes /\ pg.typed \in Passwords /\ Null \notin Passwords
    BY PageAssumption DEF PageInv, PageRecords, PageTypes
  <2>4. page' = [page EXCEPT ![g] = sent]
    BY <2>1 DEF SetPage
  <2> HIDE DEF sent
  <2>5. \A h \in Pages : page'[h] = IF h = g THEN sent ELSE page[h]
    BY <2>3, <2>4 DEF PageTypes
  <2>6. \A q \in Requests : asked'[q] = IF q = r THEN pg.typed ELSE asked[q]
    BY <2>1, <2>3 DEF PageTypes
  <2>7. PageTypes'
    BY <2>1, <2>2, <2>3, <2>4 DEF PageTypes
  <2>8. CallsAreOwn'
    BY <2>1, <2>2, <2>3, <2>5, <2>6 DEF PageInv, CallsAreOwn
  <2>9. AnswerIsTaken => AnswerIsTaken'
    BY <2>1, <2>2, <2>3, <2>5, <2>6 DEF AnswerIsTaken
  <2>10. \A h \in Pages : Fits(page'[h]) /\ page'[h].shown = page[h].shown
    BY <2>2, <2>5 DEF PageInv
  <2> QED
    BY <2>7, <2>8, <2>9, <2>10 DEF PageInv, Fits
<1> QED
  BY <1>1, <1>2

(* The page that is answered with the secret is the only one to show it:   *)
(* its request is the one that completed, and no other page waits for it.  *)
LEMMA RevealedStep ==
    ASSUME PageInv, IInv, RepliesAreCompleted, NEW g \in Pages,
           page[g].call \in Requests, pc[page[g].call] = "revealed",
           SetPage(g, Answered(page[g], "revealed")), UNCHANGED <<pc, asked>>
    PROVE  PageInv'
<1> DEFINE pg == Answered(page[g], "revealed")
           r == page[g].call
<1>1. PageTypes /\ page[g] \in PageRecords /\ Fits(page[g])
  BY DEF PageInv, PageTypes
<1>2. pg \in PageRecords /\ Fits(pg) /\ pg.call = "none" /\ pg.shown
  BY <1>1, PageAssumption DEF Answered, PageRecords, Fits
<1>3. page' = [page EXCEPT ![g] = pg]
  BY DEF SetPage
<1> HIDE DEF pg
<1>4. \A h \in Pages : page'[h] = IF h = g THEN pg ELSE page[h]
  BY <1>1, <1>3 DEF PageTypes
<1>5. PageTypes'
  BY <1>1, <1>2, <1>3 DEF PageTypes
<1>6. CallsAreOwn'
  BY <1>2, <1>4, PageAssumption DEF PageInv, CallsAreOwn
<1>7. AnswerIsTaken'
  BY <1>2, <1>4, PageAssumption DEF PageInv, CallsAreOwn, AnswerIsTaken
<1>8. ~AnswerIsTaken
  <2>1. \A q \in Requests : pc[q] = "revealed" => q = r
    BY DEF IInv, CompletionInv, RepliesAreCompleted
  <2> QED
    BY <2>1 DEF AnswerIsTaken
<1>9. \A h \in Pages : page'[h].shown => h = g
  BY <1>4, <1>8 DEF PageInv
<1>10. \A h \in Pages : Fits(page'[h])
  BY <1>2, <1>4 DEF PageInv
<1> QED
  BY <1>5, <1>6, <1>7, <1>9, <1>10 DEF PageInv, Fits

LEMMA RecipientSteps ==
    ASSUME PageInv, NEW g \in Pages, Recipient(g)
    PROVE  PageInv' /\ UNCHANGED vars
<1>1. page[g] \in PageRecords /\ Fits(page[g])
  BY DEF PageInv, PageTypes
<1>2. UNCHANGED vars
  BY DEF Recipient, Open, Reopen, Reload, Close, ClickReveal, ClickRetry
<1>3. UNCHANGED pc
  BY <1>2 DEF vars, requestVars
<1>4. ASSUME NEW on \in BOOLEAN,
             SetPage(g, Prepare([Fresh EXCEPT !.address = on])), UNCHANGED asked
      PROVE  PageInv'
  <2> DEFINE opened == [Fresh EXCEPT !.address = on]
  <2>1. /\ opened \in PageRecords /\ opened.retry = "prepare"
        /\ opened.shown = FALSE
    BY PageAssumption DEF Fresh, PageRecords
  <2> HIDE DEF opened
  <2>2. SetPage(g, Prepare(opened))
    BY <1>4 DEF opened
  <2> QED
    BY <1>3, <1>4, <2>1, <2>2, PrepareFits, PageMoves
<1>5. CASE Open(g) \/ Reload(g)
  BY <1>1, <1>2, <1>4, <1>5 DEF Open, Reload, PageRecords
<1>6. CASE Reopen(g)
  <2> DEFINE pg == [page[g] EXCEPT !.address = TRUE]
  <2>1. /\ pg \in PageRecords /\ Fits(pg) /\ pg.call = page[g].call
        /\ pg.shown = page[g].shown
    BY <1>1 DEF PageRecords, Fits
  <2>2. SetPage(g, pg) /\ UNCHANGED asked
    BY <1>6 DEF Reopen
  <2> HIDE DEF pg
  <2> QED
    BY <1>2, <1>3, <2>1, <2>2, PageMoves
<1>7. CASE Close(g)
  BY <1>2, <1>3, <1>7, FreshFits, PageMoves DEF Close
<1>8. CASE ClickReveal(g)
  <2>1. PICK p \in IF page[g].field THEN Passwords ELSE {page[g].typed} :
            Reveal(g, [page[g] EXCEPT !.typed = p, !.chosen = TRUE])
    BY <1>8 DEF ClickReveal
  <2> DEFINE pg == [page[g] EXCEPT !.typed = p, !.chosen = TRUE]
  <2>2. pg \in PageRecords /\ pg.chosen /\ pg.shown = page[g].shown
    BY <1>1, <2>1 DEF PageRecords
  <2>3. Reveal(g, pg)
    BY <2>1
  <2> HIDE DEF pg
  <2> QED
    BY <1>2, <1>3, <2>2, <2>3, RevealSteps
<1>9. CASE ClickRetry(g)
  <2>1. CASE page[g].retry = "reveal" /\ Reveal(g, page[g])
    BY <1>1, <1>2, <1>3, <2>1, RevealSteps DEF Fits
  <2>2. CASE SetPage(g, Prepare(page[g])) /\ UNCHANGED asked
    BY <1>1, <1>2, <1>3, <2>2, PrepareFits, PageMoves DEF Fits
  <2> QED
    BY <1>9, <2>1, <2>2 DEF ClickRetry
<1> QED
  BY <1>2, <1>5, <1>6, <1>7, <1>8, <1>9 DEF Recipient

LEMMA BrowserSteps ==
    ASSUME PageInv, IInv, RepliesAreCompleted, NEW g \in Pages, Browser(g)
    PROVE  PageInv' /\ UNCHANGED vars
<1>1. page[g] \in PageRecords /\ Fits(page[g])
  BY DEF PageInv, PageTypes
<1>2. UNCHANGED <<vars, asked>>
  BY DEF Browser, ServePrepare, PrepareAnswered, PrepareTruncated,
         RevealAnswered, RevealTruncated, CallFails
<1>3. UNCHANGED <<pc, asked>>
  BY <1>2 DEF vars, requestVars
<1>4. CASE ServePrepare(g)
  <2>1. PICK reply \in {"no", "open", "protected"} :
            SetPage(g, [page[g] EXCEPT !.reply = reply])
    BY <1>4 DEF ServePrepare
  <2> DEFINE pg == [page[g] EXCEPT !.reply = reply]
  <2>2. /\ pg \in PageRecords /\ Fits(pg) /\ pg.call = page[g].call
        /\ pg.shown = page[g].shown
    BY <1>1 DEF PageRecords, Fits
  <2>3. SetPage(g, pg)
    BY <2>1
  <2> HIDE DEF pg
  <2> QED
    BY <1>2, <1>3, <2>2, <2>3, PageMoves
<1>5. CASE PrepareAnswered(g)
  BY <1>1, <1>2, <1>3, <1>5, PreparedFits, PageMoves DEF PrepareAnswered
<1>6. CASE PrepareTruncated(g)
  BY <1>1, <1>2, <1>3, <1>6, UnavailableFits, PageMoves
     DEF PrepareTruncated, Fits
<1>7. CASE RevealAnswered(g)
  <2>1. page[g].call \in Requests
    BY <1>7 DEF RevealAnswered, HasAnswer
  <2>2. SetPage(g, Answered(page[g], pc[page[g].call]))
    BY <1>7 DEF RevealAnswered
  <2>3. CASE pc[page[g].call] = "revealed"
    BY <1>2, <1>3, <2>1, <2>2, <2>3, RevealedStep
  <2>4. CASE pc[page[g].call] # "revealed"
    BY <1>1, <1>2, <1>3, <2>1, <2>2, <2>4, AnsweredFits, PageMoves
  <2> QED
    BY <2>3, <2>4
<1>8. CASE RevealTruncated(g)
  <2> DEFINE pg == [page[g] EXCEPT !.token = FALSE, !.view = "revealed",
                                   !.call = "none"]
  <2>1. page[g].call \in Requests
    BY <1>8 DEF RevealTruncated, HasAnswer
  <2>2. \/ SetPage(g, pg)
        \/ SetPage(g, NetworkError(page[g], "reveal"))
    BY <1>8 DEF RevealTruncated, AnsweredBlank
  <2>3. /\ pg \in PageRecords /\ Fits(pg) /\ pg.call = "none"
        /\ pg.shown = page[g].shown
    BY <1>1, <2>1, PageAssumption DEF PageRecords, Fits
  <2> HIDE DEF pg
  <2>4. page[g].token /\ page[g].chosen
    BY <1>1, <2>1 DEF Fits
  <2> QED
    BY <1>1, <1>2, <1>3, <2>2, <2>3, <2>4, NetworkErrorFits, PageMoves
<1>9. CASE CallFails(g)
  <2> DEFINE action == IF page[g].call = "prepare" THEN "prepare" ELSE "reveal"
  <2>1. page[g].call # "none" /\ SetPage(g, NetworkError(page[g], action))
    BY <1>9 DEF CallFails
  <2>2. /\ action \in {"prepare", "reveal"} /\ page[g].token
        /\ action = "reveal" => page[g].chosen
    BY <1>1, <2>1 DEF PageRecords, Fits
  <2> HIDE DEF action
  <2> QED
    BY <1>1, <1>2, <1>3, <2>1, <2>2, NetworkErrorFits, PageMoves
<1> QED
  BY <1>2, <1>4, <1>5, <1>6, <1>7, <1>8, <1>9 DEF Browser

---------------------------------------------------------------------------
(* Steps of the server *)

LEMMA ServerIsDelivery ==
    ASSUME PageTypes, Server
    PROVE  Next
<1>1. CASE Administer
  BY <1>1 DEF Administer, Manage, Next
<1>2. ASSUME NEW r \in Requests, Serve(r) PROVE Next
  <2>1. Arrive(r) => asked[r] \in Passwords /\ Find(r, asked[r])
    BY DEF PageTypes, Arrive
  <2>2. Consume(r)
    BY <1>2, <2>1 DEF Serve, Consume
  <2> QED
    BY <2>2 DEF Next
<1> QED
  BY <1>1, <1>2 DEF Server, Next

(* A request that replied has completed, and stays answered.               *)
LEMMA RepliesStay ==
    ASSUME TypeOK, RepliesAreCompleted, [Next]_vars
    PROVE  /\ RepliesAreCompleted'
           /\ \A r \in Requests : pc[r] = "revealed" => pc'[r] = "revealed"
<1>1. CASE UNCHANGED <<pc, completedBy>>
  BY <1>1 DEF RepliesAreCompleted
<1>2. CASE \E q \in Requests : Consume(q)
  <2>1. PICK q \in Requests : Consume(q)
    BY <1>2
  <2>2. CASE ~Reply(q)
    <3>1. \E to : /\ pc' = [pc EXCEPT ![q] = to]
                  /\ pc[q] # "revealed" /\ to # "revealed"
                  /\ completedBy \subseteq completedBy'
                  /\ to = "replying" => q \in completedBy'
      BY <2>1, <2>2 DEF Consume, Find, RecordPasswordFailure, BeginConsume,
         Decrypt, RestoreConsume, CompleteConsume, Abandon, Answer, Working
    <3> QED
      BY <3>1 DEF TypeOK, RepliesAreCompleted
  <2>3. CASE Reply(q)
    BY <2>3 DEF Reply, Answer, TypeOK, RepliesAreCompleted
  <2> QED
    BY <2>2, <2>3
<1>3. CASE Tick \/ Manage \/ \E c \in Cleaners : Cleanup(c)
  <2>1. UNCHANGED <<pc, completedBy>>
    BY <1>3 DEF Tick, Manage, Create, Revoke, UpdateProtection, Cleanup,
       BeginCleanup, ExpireActive, RecoverLeases, BlankPayloads, CommitCleanup,
       RollbackCleanup, CleanupStep, EndCleanup, requestVars
  <2> QED
    BY <1>1, <2>1
<1> QED
  BY <1>1, <1>2, <1>3 DEF Next, vars, requestVars

LEMMA ServerKeepsPages ==
    ASSUME PageInv, UNCHANGED pageVars,
           \A r \in Requests : pc[r] = "revealed" => pc'[r] = "revealed"
    PROVE  PageInv'
<1>1. UNCHANGED <<page, asked>>
  BY DEF pageVars
<1>2. AnswerIsTaken => AnswerIsTaken'
  BY <1>1 DEF AnswerIsTaken
<1> QED
  BY <1>1, <1>2 DEF PageInv, PageTypes, Fits, CallsAreOwn

---------------------------------------------------------------------------
AllInv == IInv /\ RepliesAreCompleted /\ PageInv

LEMMA PageStep ==
    ASSUME AllInv, [PageNext]_allVars
    PROVE  [Next]_vars /\ RepliesAreCompleted' /\ PageInv'
<1> USE DEF AllInv
<1>1. CASE Server /\ UNCHANGED pageVars
  <2>1. Next
    BY <1>1, ServerIsDelivery DEF PageInv
  <2> QED
    BY <1>1, <2>1, RepliesStay, ServerKeepsPages DEF IInv
<1>2. ASSUME NEW g \in Pages, Recipient(g) \/ Browser(g)
      PROVE  [Next]_vars /\ RepliesAreCompleted' /\ PageInv'
  <2>1. UNCHANGED vars /\ PageInv'
    BY <1>2, RecipientSteps, BrowserSteps
  <2> QED
    BY <2>1, RepliesStay DEF IInv
<1>3. CASE UNCHANGED allVars
  <2>1. UNCHANGED vars /\ UNCHANGED pageVars
    BY <1>3 DEF allVars
  <2>2. UNCHANGED pc
    BY <2>1 DEF vars, requestVars
  <2> QED
    BY <2>1, <2>2, RepliesStay, ServerKeepsPages DEF IInv
<1> QED
  BY <1>1, <1>2, <1>3 DEF PageNext

LEMMA PageInvariance == PageSpec => []AllInv
<1>1. PageInit => PageInv /\ Init /\ RepliesAreCompleted
  BY InitPage DEF PageInit, Init, RepliesAreCompleted
<1>2. AllInv /\ [PageNext]_allVars =>
          [Next]_vars /\ RepliesAreCompleted' /\ PageInv'
  BY PageStep
<1>3. Init => IInv
  BY InitInv
<1>4. IInv /\ [Next]_vars => IInv'
  BY StepInv
<1>5. AllInv <=> IInv /\ RepliesAreCompleted /\ PageInv
  BY DEF AllInv
<1> QED
  BY <1>1, <1>2, <1>3, <1>4, <1>5, PTL DEF PageSpec

(* Whatever the recipients' tabs do, and whatever becomes of their calls,  *)
(* the server behind them behaves as the delivery does under requests that *)
(* come from anywhere: what is proved of the delivery holds of it.         *)
THEOREM PagesUseTheDelivery == PageSpec => Spec
<1>1. PageInit => Init
  BY DEF PageInit
<1>2. AllInv /\ [PageNext]_allVars => [Next]_vars
  BY PageStep
<1> QED
  BY <1>1, <1>2, PageInvariance, PTL DEF PageSpec, Spec

(* A link that is opened, reloaded, retried and revealed in any number of  *)
(* tabs keeps the promise of the one-time secret.                          *)
THEOREM PagesKeepThePromise == PageSpec => OneTime
BY PagesUseTheDelivery, Refinement

(* Every tab and every request it sent is well typed: no function of the   *)
(* script leaves a page that the next cannot take.                         *)
THEOREM PageTypeCorrect == PageSpec => []PageTypeOK
<1>1. AllInv => PageTypeOK
  BY DEF AllInv, IInv, PageInv, PageTypes, PageTypeOK
<1> QED
  BY <1>1, PageInvariance, PTL

(* One tab shows the secret, however often and in however many the link    *)
(* was opened, and only after the row was consumed.                        *)
THEOREM OnePageShows == PageSpec => []SecretOnOnePage
<1>1. AllInv => SecretOnOnePage
  BY DEF AllInv, PageInv, AnswerIsTaken, RepliesAreCompleted, SecretOnOnePage
<1> QED
  BY <1>1, PageInvariance, PTL

(* A page waits for the call it has in flight and keeps the token as long  *)
(* as it offers to use it.                                                 *)
THEOREM PageIsConsistent == PageSpec => []ViewFitsTokenAndCall
<1>1. AllInv => ViewFitsTokenAndCall
  BY DEF AllInv, PageInv, Fits, ViewFitsTokenAndCall
<1> QED
  BY <1>1, PageInvariance, PTL

(* No consume request leaves a page on which Reveal was not chosen.        *)
THEOREM NothingIsConsumedUnasked == PageSpec => []RevealIsChosen
<1>1. AllInv => RevealIsChosen
  BY DEF AllInv, PageInv, Fits, RevealIsChosen
<1> QED
  BY <1>1, PageInvariance, PTL
=============================================================================
