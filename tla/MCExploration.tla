---------------------------- MODULE MCExploration ----------------------------
(***************************************************************************)
(* Exploration of small applications: one of links that lead round in *)
(* circles, one with buttons that mean something else on another page, one   *)
(* that sends its visitors elsewhere, and the page a browser starts on when *)
(* nothing takes it anywhere.                                               *)
(***************************************************************************)
EXTENDS Exploration, TLC

Link(key, to) == [key |-> key, role |-> "link", to |-> to, disabled |-> FALSE]
Button(key) == [key |-> key, role |-> "button", to |-> "none", disabled |-> FALSE]
Grey(key) == [key |-> key, role |-> "button", to |-> "none", disabled |-> TRUE]
Field(key) == [key |-> key, role |-> "textbox", to |-> "none", disabled |-> FALSE]

ShopPages == {"home", "list", "item", "help", "ad", "moved", "signin"}
Here(p) == IF p = "ad" THEN "elsewhere" ELSE "shop"
Stays == [p \in ShopPages |->
  CASE p = "moved" -> "list" [] p = "signin" -> "ad" [] OTHER -> p]
Offering(home, list, item, help) ==
  ("home" :> home) @@ ("list" :> list) @@ ("item" :> item) @@ ("help" :> help)
    @@ ("ad" :> << >>) @@ ("moved" :> << >>) @@ ("signin" :> << >>)

\* Where a click on a control of a page leads: a button where it is told to, a link where
\* it points, anything else nowhere.
Clicks(offers, buttons) ==
  [p \in ShopPages |-> [k \in 1 .. 5 |->
     LET link == { a \in ToSet(offers[p]) : a.key = k /\ a.role = "link" } IN
     IF k \in DOMAIN buttons[p] THEN buttons[p][k]
     ELSE IF link # {} THEN Stays[(CHOOSE a \in link : TRUE).to] ELSE p]]

Shop(offers, buttons, start) ==
  [start |-> start, offers |-> offers, lands |-> Stays, clicks |-> Clicks(offers, buttons),
   origin |-> [p \in ShopPages |-> Here(p)],
   route |-> ("home" :> 1) @@ ("list" :> 2) @@ ("item" :> 3) @@ ("help" :> 4)
               @@ ("ad" :> 5) @@ ("moved" :> 6) @@ ("signin" :> 7)]

NoButtons == [p \in ShopPages |-> << >>]

\* Two pages that link to each other, a redirect, a link out, a page three links away that
\* offers too much: the URL of its last link is not read.
Circular == Shop(Offering(<<Link(3, "ad"), Link(1, "list"), Field(2)>>,
                          <<Link(5, "moved"), Link(1, "home"), Link(2, "help")>>,
                          <<Link(1, "home")>>,
                          <<Link(1, "item"), Grey(2), Link(1, "ad"), Field(3), Link(4, "list"), Field(5)>>), NoButtons, "home")

\* A button that leads on from two pages, and not to the same.
Buttons == Shop(Offering(<<Button(1), Link(2, "help"), Link(3, "list")>>,
                         <<Button(1)>>, << >>, <<Button(4)>>),
                [p \in ShopPages |->
                   CASE p = "home" -> (1 :> "list")
                     [] p = "list" -> (1 :> "item")
                     [] p = "help" -> (4 :> "ad")
                     [] OTHER -> << >>], "home")

\* A link of the shop that another origin answers.
Redirected == Shop(Offering(<<Link(1, "list"), Link(2, "signin"), Link(3, "help")>>,
                            << >>, << >>, << >>), NoButtons, "home")

Blank == Shop(Offering(<<Link(1, "list")>>, << >>, << >>, << >>), NoButtons, "moved")

AllSites == {Circular, Buttons, Redirected, Blank}

Policy(writes, actions, depth) ==
  [origins |-> {"shop"}, destructive |-> writes, uploads |-> FALSE, uploadPaths |-> {},
   maxActions |-> actions, maxDuration |-> 60, maxModelCalls |-> 0, maxDepth |-> depth]

AllPolicies == {Policy(FALSE, 8, -1), Policy(TRUE, 8, 2), Policy(TRUE, 3, 1)}

\* What the shop was before: the list offered less, a page is gone, another was there.
Old(route, keys) == [route |-> route, offers |-> [i \in DOMAIN keys |-> Link(keys[i], "home")]]
Before1 == [states |-> <<Old(1, <<1, 2, 3>>), Old(2, <<1>>), Old(2, <<2>>), Old(7, <<1>>)>>,
            complete |-> TRUE]
Before2 == [states |-> <<Old(4, << >>), Old(4, <<1, 2, 3>>), Old(3, <<1>>)>>, complete |-> FALSE]

AllBaselines == {NoMap, Before1, Before2}

AllRoutes == 1 .. 7
AllLabels == 1 .. 5
AllDigests == [s \in AllRoutes \X SUBSET AllLabels |->
                 64 * s[1] + MapThenSumSet(LAMBDA k : 2 ^ k, s[2])]

\* What the theorem about whole maps asks of an application.
ASSUME SitesTellPagesApart == \A s \in Sites : PagesAgree(AsRead(s))
=============================================================================
