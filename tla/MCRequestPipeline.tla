---- MODULE MCRequestPipeline ----
(* RequestPipeline on a site of a root and a subdirectory. *)
EXTENDS RequestPipeline

RootOnly == {"root"}
RootAndSub == {"root", "sub"}

\* every combination of switches the configuration code lets through
ConfigsWith(initials) ==
    {c \in [markdown : BOOLEAN, browse : BOOLEAN, noListing : BOOLEAN, initial : initials] :
        c.browse => ~c.noListing}

SiteNames    == {"index.html", "index.htm", "README.md", "guide.md"}
SiteConfigs  == ConfigsWith({NoInitial, "README.md"})
HtmNames     == {"index.html", "index.htm"}
PlainConfigs == ConfigsWith({NoInitial})
IndexNames   == {"index.html"}
IndexConfigs == ConfigsWith({"index.html"})
====
