---------------------------- MODULE MCReportSite ----------------------------
(* A report of an index, a class page and listings.  The listings are the  *)
(* report's own, one pre, and others on which prettyPrint() may be called. *)
EXTENDS ReportSite

MCPage == {"index", "class", "report", "nested", "xhtml", "wrapped"}
MCColumn == {"a", "b", "c"}

MCHeader == [p \in MCPage |-> CASE p = "index" -> <<"a", "b", "c">>
                                [] p = "class" -> <<"a", "b">>
                                [] OTHER -> <<>>]
MCRow == [p \in MCPage |-> CASE p = "index" -> {"r1", "r2", "r3"}
                             [] p = "class" -> {"m1", "m2"}
                             [] OTHER -> {}]

(* Bars, counters and names order the rows differently. *)
MCCell == [p \in MCPage |->
             CASE p = "index" -> [r \in {"r1", "r2", "r3"} |->
                                    CASE r = "r1" -> <<0, 0, 2>>
                                      [] r = "r2" -> <<1, 2, 0>>
                                      [] r = "r3" -> <<2, 1, 1>>]
               [] p = "class" -> [r \in {"m1", "m2"} |->
                                    IF r = "m1" THEN <<0, 1>> ELSE <<1, 0>>]
               [] OTHER -> <<>>]
MCDelivered == [p \in MCPage |-> "b"]

(* The listing is linked from the class page's table, which initialSort is *)
(* not given; listings have the breadcrumb only.                           *)
MCLink == [p \in MCPage |-> CASE p = "index" -> {"toClass"}
                              [] p = "class" -> {"toIndex", "toReport", "toNested",
                                                 "toXhtml", "toWrapped"}
                              [] OTHER -> {"crumb"}]
MCTarget == [l \in {"toClass", "toIndex", "toReport", "toNested", "toXhtml",
                    "toWrapped", "crumb"} |->
               CASE l = "toClass" -> "class"
                 [] l = "toIndex" -> "index"
                 [] l = "toReport" -> "report"
                 [] l = "toNested" -> "nested"
                 [] l = "toXhtml" -> "xhtml"
                 [] l = "toWrapped" -> "wrapped"
                 [] l = "crumb" -> "class"]
MCTagged == {"toClass", "toIndex"}

-----------------------------------------------------------------------------
MCNode == {"listing",
           "pre", "codeInPre", "code", "preInCode", "codeInThem", "xmp", "preOfXmp",
           "xmpInPre", "xpre", "xcodeInPre", "xcode", "xpreInCode", "xxmp",
           "first", "second", "third", "plain", "empty"}

MCOuter == [n \in MCNode |-> CASE n = "codeInPre" -> {"pre"}
                               [] n = "preInCode" -> {"code"}
                               [] n = "codeInThem" -> {"code", "preInCode"}
                               [] n = "xmpInPre" -> {"preOfXmp"}
                               [] n = "xcodeInPre" -> {"xpre"}
                               [] n = "xpreInCode" -> {"xcode"}
                               [] OTHER -> {}]
MCTag == [n \in MCNode |->
            CASE n \in {"listing", "pre", "preInCode", "preOfXmp", "xpre",
                        "xpreInCode"} -> "pre"
              [] n \in {"xmp", "xmpInPre", "xxmp"} -> "xmp"
              [] OTHER -> "code"]
MCDeep == {"codeInPre"}
MCSource == MCNode \ {"plain"}
MCEmpty == {"empty"}
MCFaulty == {"third"}
MCWrapped == {"first", "second", "plain"}
MCBreaks == [n \in MCNode |-> CASE n = "listing" -> {1, 3}
                                [] n = "first" -> {2}
                                [] n = "second" -> {0}
                                [] n = "third" -> {1}
                                [] OTHER -> {}]
MCXhtml == {"xpre", "xcodeInPre", "xcode", "xpreInCode", "xxmp"}

MCDocument == [p \in MCPage |->
  CASE p = "report" -> <<"listing">>
    [] p = "nested" -> <<"pre", "codeInPre", "code", "preInCode", "codeInThem", "xmp",
                         "preOfXmp", "xmpInPre">>
    [] p = "xhtml" -> <<"xpre", "xcodeInPre", "xcode", "xpreInCode", "xxmp">>
    [] p = "wrapped" -> <<"plain", "first", "second", "empty", "third">>
    [] OTHER -> <<>>]
MCByTagName == [p \in MCPage |-> [tag \in {"pre", "code", "xmp"} |->
                  SelectSeq(MCDocument[p], LAMBDA n : MCTag[n] = tag)]]

=============================================================================
