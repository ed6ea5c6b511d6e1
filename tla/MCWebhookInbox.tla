---- MODULE MCWebhookInbox ----
EXTENDS WebhookInboxProperties
====
