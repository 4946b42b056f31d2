---- MODULE RequestPipeline ----
(***************************************************************************)
(* How ghttp answers a request for a file or a directory: the chain of     *)
(* handlers buildFileHandler assembles, walked by one client that follows  *)
(* redirects.  Every handler opens files on its own, so the site may be    *)
(* edited between what one handler saw and what the next one does.         *)
(*                                                                         *)
(* A path is a directory and a leaf: a file name, "/" for the directory    *)
(* with its trailing slash, or "" for the directory without it.            *)
(***************************************************************************)
EXTENDS Naturals, FiniteSets

CONSTANTS
    Dirs,      \* directories of the site; they are not edited
    Root,      \* the directory served at "/"
    FileNames, \* names files may have
    Configs,   \* configurations of the server to consider
    MaxEdits   \* bound on the number of edits of the site

NoInitial == "none"
IndexCandidates == {"index.html", "index.htm"}
MarkdownNames   == {"README.md", "guide.md"}

Paths == {[dir |-> d, leaf |-> l] : d \in Dirs, l \in FileNames \cup {"/"}}
           \cup {[dir |-> d, leaf |-> ""] : d \in Dirs \ {Root}}
FilePaths == {p \in Paths : p.leaf \in FileNames}

ASSUME RootAssumption   == Root \in Dirs
ASSUME NamesAssumption  == FileNames \subseteq
    IndexCandidates \cup MarkdownNames \cup {"cat.html", "data.bin"}
ASSUME EditsAssumption  == MaxEdits \in Nat
\* prepareServeConfiguration drops the listing switch in browse mode
ASSUME ConfigAssumption == \A c \in Configs :
    /\ {c.markdown, c.browse, c.noListing} \subseteq BOOLEAN
    /\ c.browse => ~c.noListing
    /\ c.initial \in FileNames \cup {NoInitial}

VARIABLES
    config,    \* the configuration the server was started with
    site,      \* the files that exist, as paths
    asked,     \* what the user asked the client for
    url,       \* what the client asks the server for
    path,      \* the request path the current handler sees
    at,        \* the handler the request is in
    candidate, \* the Markdown file chosen for the answer
    answer,    \* what the client finally got
    edits      \* number of edits so far

vars == <<config, site, asked, url, path, at, candidate, answer, edits>>

Nothing  == [kind |-> "none", of |-> [dir |-> Root, leaf |-> "/"]]
Kinds    == {"none", "file", "page", "listing", "forbidden", "notFound"}
Handlers == {"initial", "browse", "markdown", "guard", "indexHtml", "indexHtm",
             "candidate", "render", "fileServer", "done"}

TypeOK ==
    /\ config \in Configs
    /\ site \subseteq FilePaths
    /\ {asked, url, path, candidate} \subseteq Paths
    /\ at \in Handlers
    /\ answer \in [kind : Kinds, of : Paths]
    /\ edits \in 0..MaxEdits

Init ==
    /\ config \in Configs
    /\ site \in SUBSET FilePaths
    /\ asked \in Paths
    /\ url = asked
    /\ path = asked
    /\ at = "initial"
    /\ candidate = asked
    /\ answer = Nothing
    /\ edits = 0

IsDirectory(p) == p.leaf \in {"/", ""}
HasSlash(p)    == p.leaf = "/"
Exists(p)      == IsDirectory(p) \/ p \in site
InDir(p, name) == [dir |-> p.dir, leaf |-> name]

-----------------------------------------------------------------------------
(* Moves between handlers *)

Pass(handler) ==
    /\ at' = handler
    /\ UNCHANGED <<config, site, asked, url, path, candidate, answer, edits>>

Answer(kind, of) ==
    /\ at' = "done"
    /\ answer' = [kind |-> kind, of |-> of]
    /\ UNCHANGED <<config, site, asked, url, path, candidate, edits>>

\* The client asks again, for the directory its own URL names.
Redirect ==
    /\ at' = "initial"
    /\ url' = InDir(url, "/")
    /\ path' = InDir(url, "/")
    /\ UNCHANGED <<config, site, asked, candidate, answer, edits>>

\* what buildFileHandler put behind the browse handler
InnerHandler ==
    IF config.markdown THEN "markdown"
    ELSE IF config.noListing /\ ~config.browse THEN "guard"
    ELSE "fileServer"

-----------------------------------------------------------------------------
(* The handlers *)

\* Mutant: the root is replaced even when there is no initial file.
InitialFileUnset ==
    /\ at = "initial"
    /\ path' = IF ~config.browse /\ path = [dir |-> Root, leaf |-> "/"]
               THEN [dir |-> Root, leaf |-> config.initial] ELSE path
    /\ at' = IF config.browse THEN "browse" ELSE InnerHandler
    /\ UNCHANGED <<config, site, asked, url, candidate, answer, edits>>

InitialFile ==
    /\ at = "initial"
    /\ path' = IF /\ config.initial # NoInitial /\ ~config.browse
                  /\ path = [dir |-> Root, leaf |-> "/"]
               THEN [dir |-> Root, leaf |-> config.initial]
               ELSE path
    /\ at' = IF config.browse THEN "browse" ELSE InnerHandler
    /\ UNCHANGED <<config, site, asked, url, candidate, answer, edits>>

\* Mutant: direct files are left to the file server.
BrowseDirectoriesOnly ==
    /\ at = "browse"
    /\ \/ HasSlash(path) /\ InDir(path, "index.html") \notin site /\ Answer("listing", path)
       \/ ~HasSlash(path) /\ Pass(InnerHandler)
       \/ HasSlash(path) /\ InDir(path, "index.html") \in site /\ Pass(InnerHandler)

\* Mutant: browse mode sends a folder to its index.html, if there is one.
BrowseToIndex ==
    /\ at = "browse"
    /\ \/ HasSlash(path) /\ InDir(path, "index.html") \notin site /\ Answer("listing", path)
       \/ HasSlash(path) /\ InDir(path, "index.html") \in site /\ Redirect
       \/ ~HasSlash(path) /\ Pass(InnerHandler)

Browse ==
    /\ at = "browse"
    /\ \/ HasSlash(path) /\ Answer("listing", path)
       \/ path \in site /\ path.leaf \notin MarkdownNames /\ Answer("file", path)
       \/ /\ ~HasSlash(path)
          /\ path \in site => path.leaf \in MarkdownNames
          /\ Pass(InnerHandler)

Markdown ==
    /\ at = "markdown"
    /\ \/ /\ path \in site
          /\ path.leaf \in MarkdownNames
          /\ candidate' = path
          /\ at' = "render"
          /\ UNCHANGED <<config, site, asked, url, path, answer, edits>>
       \/ HasSlash(path) /\ ~config.browse /\ Pass("indexHtml")
       \/ /\ ~(path \in site /\ path.leaf \in MarkdownNames)
          /\ ~(HasSlash(path) /\ ~config.browse)
          /\ Pass("fileServer")

Guard ==
    /\ at = "guard"
    /\ Pass(IF HasSlash(path) THEN "indexHtml" ELSE "fileServer")

\* findDirectoryIndexPath, one candidate after the other
IndexHtml ==
    /\ at = "indexHtml"
    /\ Pass(IF InDir(path, "index.html") \in site THEN "fileServer" ELSE "indexHtm")

IndexHtm ==
    /\ at = "indexHtm"
    /\ \/ InDir(path, "index.htm") \in site /\ Pass("fileServer")
       \/ /\ InDir(path, "index.htm") \notin site
          /\ \/ config.markdown /\ Pass("candidate")
             \/ ~config.markdown /\ Answer("forbidden", path)

MarkdownIn(dir) == {p \in site : p.dir = dir /\ p.leaf \in MarkdownNames}

\* Mutant: the listing switch is not looked at when no page is chosen.
SelectCandidateOrList ==
    /\ at = "candidate"
    /\ LET found == MarkdownIn(path.dir)
       IN  IF found # {}
           THEN /\ candidate' = CHOOSE p \in found : TRUE
                /\ at' = "render"
                /\ UNCHANGED <<config, site, asked, url, path, answer, edits>>
           ELSE Pass("fileServer")

SelectCandidate ==
    /\ at = "candidate"
    /\ LET readme == InDir(path, "README.md")
           found  == MarkdownIn(path.dir)
       IN  IF readme \in found \/ Cardinality(found) = 1
           THEN /\ candidate' = IF readme \in found THEN readme
                                ELSE CHOOSE p \in found : TRUE
                /\ at' = "render"
                /\ UNCHANGED <<config, site, asked, url, path, answer, edits>>
           ELSE IF config.noListing THEN Answer("forbidden", path)
           ELSE Pass("fileServer")

Render ==
    /\ at = "render"
    /\ \/ candidate \in site /\ Answer("page", candidate)
       \/ candidate \notin site /\ Pass("fileServer")

\* net/http: a request for index.html is redirected to its directory, a
\* directory without slash to the one with it; a directory is answered with
\* its index.html, or else listed.
FileServer ==
    /\ at = "fileServer"
    /\ \/ path.leaf \in {"index.html", ""} /\ Redirect
       \/ /\ path.leaf \notin {"index.html", "/", ""}
          /\ Answer(IF path \in site THEN "file" ELSE "notFound", path)
       \/ /\ HasSlash(path)
          /\ LET index == InDir(path, "index.html")
             IN  IF index \in site THEN Answer("file", index)
                                   ELSE Answer("listing", path)

Handle ==
    \/ InitialFile \/ Browse \/ Markdown \/ Guard \/ IndexHtml \/ IndexHtm
    \/ SelectCandidate \/ Render \/ FileServer

\* somebody creates or deletes a file while the request is under way
Edit ==
    /\ at # "done"
    /\ edits < MaxEdits
    /\ edits' = edits + 1
    /\ \E p \in FilePaths :
         site' = IF p \in site THEN site \ {p} ELSE site \cup {p}
    /\ UNCHANGED <<config, asked, url, path, at, candidate, answer>>

Next == Handle \/ Edit

\* A handler runs to its end, and the client asks again when redirected.
Spec == Init /\ [][Next]_vars /\ WF_vars(Handle)

-----------------------------------------------------------------------------
(* What the documentation says the answer is (README.md: Key capabilities    *)
(* and --browse; ARCHITECTURE.md: File and directory serving)                *)

\* the URL a request ends up at: directories have a slash, and outside browse
\* mode an index.html is its directory
Canonical(u) ==
    IF u.leaf = "" \/ (u.leaf = "index.html" /\ ~(config.browse /\ u \in site))
    THEN InDir(u, "/") ELSE u

DocumentedFile(p) ==
    IF p \notin site THEN [kind |-> "notFound", of |-> p]
    ELSE IF config.markdown /\ p.leaf \in MarkdownNames THEN [kind |-> "page", of |-> p]
    ELSE [kind |-> "file", of |-> p]

DocumentedDirectory(p) ==
    LET has(name) == InDir(p, name) \in site
        pages == MarkdownIn(p.dir)
        is(kind, name) == [kind |-> kind, of |-> InDir(p, name)]
    IN  IF config.browse THEN is("listing", "/")
        ELSE IF has("index.html") THEN is("file", "index.html")
        ELSE IF config.markdown /\ has("README.md") THEN is("page", "README.md")
        ELSE IF config.markdown /\ Cardinality(pages) = 1
             THEN [kind |-> "page", of |-> CHOOSE p1 \in pages : TRUE]
        ELSE IF config.noListing THEN is("forbidden", "/")
        ELSE is("listing", "/")

Documented(u) ==
    LET c == Canonical(u)
    IN  IF c = [dir |-> Root, leaf |-> "/"] /\ config.initial # NoInitial /\ ~config.browse
        THEN DocumentedFile([dir |-> Root, leaf |-> config.initial])
        ELSE IF IsDirectory(c) THEN DocumentedDirectory(c)
        ELSE DocumentedFile(c)

-----------------------------------------------------------------------------
(* Properties *)

\* Through all handlers and redirects, the client of an unedited site without an index.htm
\* gets what the documentation promises for the URL it was given.
AnswerAsDocumented ==
    at = "done" /\ edits = 0 /\ (\A p \in site : p.leaf # "index.htm")
        => answer = Documented(asked)

\* With directory listings disabled "directory roots still serve `index.html` / `index.htm`
\* when present, otherwise the handler returns HTTP 403" (README.md): no client of an
\* unedited site gets a listing.
NoListingWhenDisabled ==
    config.noListing /\ edits = 0 => answer.kind # "listing"

\* In browse mode a folder URL always gives the listing of that folder, also
\* while its index or README come and go.
BrowseListsFolders ==
    config.browse /\ IsDirectory(asked) /\ at = "done" =>
        answer = [kind |-> "listing", of |-> InDir(asked, "/")]

\* A client that follows redirects gets an answer in the end: no URL is
\* redirected back to itself.
Answered == <>(at = "done")
====
