---------------------------- MODULE KnowledgePages ----------------------------
(***************************************************************************)
(* The knowledge base (KnowledgeBaseWorkspace.tsx): its list, where        *)
(* articles are written, chosen and imported, and the page of an article.  *)
(* One boolean, busy, disables every button but those that open a file.    *)
(***************************************************************************)
EXTENDS PageOps

LOCAL Busy == On("busy")

SaveHandlers == Posts({"saveArticle"}, Busy, "leave")
CategoryHandlers == Posts({"createCategory"}, Busy, "choose")
BulkArticleHandlers == Calls({"bulkUpdateStatus", "bulkDeleteArticles"}, Busy, "reload")
PdfHandlers == Calls({"previewPdf"}, Busy, "nothing")
ImportHandlers == Posts({"commitImport"}, Busy, "reload")
OneNoteHandlers ==
  Calls({"openOneNoteImport", "selectOneNoteNotebook", "previewOneNoteImport"}, Busy, "nothing")

KnowledgeListHandlers ==
  SaveHandlers @@ CategoryHandlers @@ BulkArticleHandlers @@ PdfHandlers @@ ImportHandlers @@ OneNoteHandlers

KnowledgeToolbar == Off({"openOneNoteImport", "createCategory"}, {Busy}) @@ Off({"previewPdf"}, {})
KnowledgeBulkBar == Off(DOMAIN BulkArticleHandlers, {Busy})
KnowledgeEditor == Off({"saveArticle"}, {Busy})
ImportReview == Off({"commitImport"}, {Busy})
OneNoteDialog == Off({"selectOneNoteNotebook"}, {}) @@ Off({"previewOneNoteImport"}, {Busy})

KnowledgeListPage ==
  Page(KnowledgeListHandlers,
       KnowledgeToolbar @@ KnowledgeBulkBar @@ KnowledgeEditor @@ ImportReview @@ OneNoteDialog,
       {"saveArticle", "createCategory", "commitImport"}, {}, {"queried"})

-----------------------------------------------------------------------------
ArticleHandlers ==
  Calls({"saveArticle", "updateStatus"}, Busy, "reload")
  @@ Calls({"deleteArticle"}, Busy, "leave")
MediaHandlers == Calls({"syncOneNoteMedia"}, Busy, "reload")
UploadHandlers == Calls({"uploadInlineImage", "uploadArticleAttachment"}, Busy, "reload")

ArticleControls ==
  Off(DOMAIN ArticleHandlers, {Busy}) @@ Off(DOMAIN MediaHandlers, {Busy}) @@ Off(DOMAIN UploadHandlers, {})

ArticlePage ==
  Page(ArticleHandlers @@ MediaHandlers @@ UploadHandlers, ArticleControls, {}, {}, {})
=============================================================================
